---- MODULE Spec2Model ----
(***************************************************************************)
(* Model of the LLM request gateway of open-source-ai-artifacts:           *)
(*   - the rate limiter            (src/lib/rate-limit.ts)                 *)
(*   - the circuit breaker         (ErrorRecovery.createCircuitBreaker)    *)
(*   - the raw SSE streaming path  (src/app/api/chat/route.ts)             *)
(*   - the request orchestrator    (POST of src/app/api/chat/route.ts)     *)
(* Each component has its own specification over the shared variables; a   *)
(* component's specification leaves the other components' variables at     *)
(* their initial values.                                                   *)
(***************************************************************************)
EXTENDS Integers, Sequences, FiniteSets, TLC

\* ------------------------------------------------------------------------
\* Bounds of the model
\* ------------------------------------------------------------------------
\* Date.now() ranges over 0..MaxTime
MaxTime == 4
\* the configured max of the limiter ranges over 0..MaxMax
MaxMax == 2
\* the configured windowMs ranges over 1..MaxWindow
MaxWindow == 2

\* encoding of JavaScript's undefined in an integer-valued field
Undefined == -1

\* client keys as produced by getClientKey
Keys == {"uid:a"}

\* ------------------------------------------------------------------------
\* State
\* ------------------------------------------------------------------------
VARIABLES
  now,            \* Date.now()
  rlCfg,          \* the limiter's configuration: max, windowMs, Upstash env present
  memoryBuckets,  \* Map<string, Entry> of rate-limit.ts
  redis,          \* the distributed store: live keys -> [count, expireAt]
  rlBegan,        \* history: when the in-process window of a key began
  rlOrd,          \* history: how many checks the key's in-process window has seen
  stOrd,          \* history: per key, the store window and how many checks it has seen
  rlLast,         \* history: the check decided by the limiter's last step, if any
  cbCfg,          \* the breaker's failureThreshold and recoveryTimeout
  cbState,        \* state: 'CLOSED' | 'OPEN' | 'HALF_OPEN'
  failures,       \* failures
  lastFailureTime,\* lastFailureTime
  calls,          \* the calls of the returned closure: idle or awaiting operation()
  cbStreak,       \* history: failed operations since the last successful one
  cbLast,         \* history: the last step of a breaker call
  sse,            \* one raw-mode SSE session: stream, heartbeat timer, provider call
  gwEnv,          \* process.env as the gateway reads it
  gw,             \* one request through POST: position, inputs, response, history
  rs,             \* one call of getModelClient: its inputs and its outcome
  nz,             \* one error through the normalizer of POST's catch block
  ck,             \* one call of getClientKey: its inputs and the key
  fb,             \* one traversal of the fallback chain (providers or templates)
  rb,             \* one call of retryWithBackoff: loop position, invocations, waits
  rq              \* concurrent rateLimitAsync calls: each one's position and result

\* the limiter's variables apart from the clock
rlVars == <<rlCfg, memoryBuckets, redis, rlBegan, rlOrd, stOrd, rlLast>>

\* the breaker's variables apart from the clock
cbVars == <<cbCfg, cbState, failures, lastFailureTime, calls, cbStreak, cbLast>>

\* the gateway's variables
gwVars == <<gwEnv, gw>>

\* the calls of the pure functions
fnVars == <<rs, nz, ck, fb, rb, rq>>

vars == <<now, rlVars, cbVars, sse, gwVars, fnVars>>

\* ------------------------------------------------------------------------
\* Rate limiter (src/lib/rate-limit.ts)
\* ------------------------------------------------------------------------
\* Map.set
MapSet(m, k, v) == [x \in (DOMAIN m) \cup {k} |-> IF x = k THEN v ELSE m[x]]

\* Map.delete of a set of keys
MapDelete(m, ks) == [x \in (DOMAIN m) \ ks |-> m[x]]

\* the empty Map
EmptyMap == [x \in {} |-> 0]

Result(allowed, remaining, retryAfterMs) ==
  [allowed |-> allowed, remaining |-> remaining, retryAfterMs |-> retryAfterMs]

\* (variant of MemFresh: the window boundary compared with < instead of <=)
MemFreshStrict(mb, key, t) == key \notin DOMAIN mb \/ mb[key].resetAt < t

\* the condition under which memoryRateLimit starts a fresh window
MemFresh(mb, key, t) == key \notin DOMAIN mb \/ mb[key].resetAt <= t

\* memoryRateLimit(namespacedKey, max, windowMs) at time t on the map mb:
\* the returned RateLimitResult and the map afterwards
memoryRateLimit(mb, key, max, windowMs, t) ==
  IF MemFresh(mb, key, t)
  THEN [res |-> Result(TRUE, max - 1, Undefined),
        mb  |-> MapSet(mb, key, [count |-> 1, resetAt |-> t + windowMs])]
  ELSE IF mb[key].count < max
       THEN [res |-> Result(TRUE, max - (mb[key].count + 1), Undefined),
             mb  |-> MapSet(mb, key, [count |-> mb[key].count + 1,
                                      resetAt |-> mb[key].resetAt])]
       ELSE [res |-> Result(FALSE, 0, mb[key].resetAt - t),
             mb  |-> mb]

\* what the store can answer to the pipelined request
StoreResponses == {"ok", "unreachable", "not_ok", "bad_json", "wrong_shape"}

\* the answers on which fetch or resp.json() throws, or resp.ok is false
StoreThrows == {"unreachable", "not_ok", "bad_json"}

Max0(a, b) == IF a >= b THEN a ELSE b

RedisKey(key, windowId) == <<"rl", key, windowId>>

\* INCR key; PEXPIRE key remainingMs, executed by the store rd at time t
RedisIncrExpire(rd, rkey, remainingMs, t) ==
  MapSet(rd, rkey, [count    |-> IF rkey \in DOMAIN rd THEN rd[rkey].count + 1 ELSE 1,
                    expireAt |-> t + remainingMs])

\* upstashRateLimit(namespacedKey, max, windowMs) called at time t, the store
\* executing the pipeline at time ts and answering resp, the code after the
\* awaits (and memoryRateLimit, which reads Date.now() itself) running at
\* time tm: the result, the in-process map and the store afterwards
upstashRateLimit(configured, resp, mb, rd, key, max, windowMs, t, ts, tm) ==
  LET windowId    == t \div windowMs
      rkey        == RedisKey(key, windowId)
      remainingMs == windowMs - (t - windowId * windowMs)
      mem         == memoryRateLimit(mb, key, max, windowMs, tm)
  IN  IF ~configured
      THEN [res |-> mem.res, mb |-> mem.mb, rd |-> rd, path |-> "memory"]
      ELSE IF resp \in StoreThrows
      THEN [res |-> mem.res, mb |-> mem.mb, rd |-> rd, path |-> "memory"]
      ELSE IF resp = "wrong_shape"
      THEN \* results?.[0]?.result ?? 1 and results?.[2]?.result ?? remainingMs
           LET count   == 1
               pttl    == remainingMs
               allowed == count <= max
           IN  [res  |-> Result(allowed, Max0(0, max - count),
                                IF allowed THEN Undefined ELSE pttl),
                mb   |-> mb, rd |-> rd, path |-> "default"]
      ELSE LET rd2     == RedisIncrExpire(rd, rkey, remainingMs, ts)
               count   == rd2[rkey].count
               pttl    == rd2[rkey].expireAt - ts
               allowed == count <= max
           IN  [res  |-> Result(allowed, Max0(0, max - count),
                                IF allowed THEN Undefined ELSE pttl),
                mb   |-> mb, rd |-> rd2, path |-> "store"]

\* cleanupExpired() at time t
cleanupExpired(mb, t) == MapDelete(mb, {k \in DOMAIN mb : mb[k].resetAt <= t})

\* the store drops the keys whose expiry has passed
RedisExpire(rd, t) == MapDelete(rd, {k \in DOMAIN rd : rd[k].expireAt <= t})

\* ---- history of the checks ----
NoCall ==
  [api |-> "none", key |-> "none", resp |-> "none", path |-> "none",
   res |-> Result(FALSE, 0, Undefined), mem |-> Result(FALSE, 0, Undefined),
   ord |-> 0, prevRem |-> 0, countAfter |-> 0, elapsed |-> FALSE,
   preOrd |-> 0, resetAfter |-> 0, t |-> 0]

\* the in-process window of key is over at time t (or never began)
WindowOver(key, windowMs, t) ==
  key \notin DOMAIN rlBegan \/ t - rlBegan[key] >= windowMs

Saturate(n) == IF n > rlCfg.max + 1 THEN n ELSE n + 1

\* the store counter of a window is followed up to MaxCount
MaxCount == 3

\* the step of a check that decides it, at the current time: memoryRateLimit
\* for rateLimit (sync) and for a rateLimitAsync call (called at time t) that
\* has no store or whose request failed; the store's pipeline and the result
\* read off its answer otherwise
Decide(api, key, resp, t) ==
  LET max      == rlCfg.max
      windowMs == rlCfg.windowMs
      mem      == memoryRateLimit(memoryBuckets, key, max, windowMs, now)
      out      == IF api = "sync"
                  THEN [res |-> mem.res, mb |-> mem.mb, rd |-> redis, path |-> "memory"]
                  ELSE upstashRateLimit(rlCfg.configured, resp, memoryBuckets, redis,
                                        key, max, windowMs, t, now, now)
      windowId == t \div windowMs
      rkey     == RedisKey(key, windowId)
      over     == WindowOver(key, windowMs, now)
      memOrd   == IF over THEN 1 ELSE Saturate(rlOrd[key].n)
      sameBkt  == key \in DOMAIN stOrd /\ stOrd[key].windowId = windowId
      sOrd     == IF sameBkt THEN Saturate(stOrd[key].n) ELSE 1
      prev     == IF out.path = "memory" /\ ~over THEN rlOrd[key].rem
                  ELSE IF out.path = "store" /\ sameBkt THEN stOrd[key].rem
                  ELSE Undefined
  IN
  /\ memoryBuckets' = out.mb
  /\ redis' = out.rd
  /\ rlBegan' = IF out.path = "memory" /\ over THEN MapSet(rlBegan, key, now) ELSE rlBegan
  /\ rlOrd'   = IF out.path = "memory"
                THEN MapSet(rlOrd, key, [n |-> memOrd, rem |-> out.res.remaining])
                ELSE rlOrd
  /\ stOrd'   = IF out.path = "store"
                THEN MapSet(stOrd, key, [windowId |-> windowId, n |-> sOrd,
                                         rem |-> out.res.remaining])
                ELSE stOrd
  /\ rlLast' = [api |-> api, key |-> key,
                resp |-> IF api = "sync" THEN "none"
                         ELSE IF ~rlCfg.configured THEN "unconfigured" ELSE resp,
                path |-> out.path, res |-> out.res, mem |-> mem.res,
                ord |-> IF out.path = "memory" THEN memOrd
                        ELSE IF out.path = "store" THEN sOrd ELSE 0,
                prevRem |-> prev,
                countAfter |-> IF out.path = "memory" THEN out.mb[key].count
                               ELSE IF out.path = "store" THEN out.rd[rkey].count
                               ELSE 0,
                elapsed |-> key \in DOMAIN rlBegan /\ over,
                preOrd |-> IF key \in DOMAIN rlOrd THEN rlOrd[key].n ELSE 0,
                resetAfter |-> IF key \in DOMAIN out.mb THEN out.mb[key].resetAt ELSE 0,
                t |-> IF out.path = "memory" THEN now ELSE t]
  /\ UNCHANGED <<now, rlCfg, cbVars, sse, gwVars, rs, nz, ck, fb, rb>>

\* at most MaxCheckers calls of rateLimitAsync are in flight at once
MaxCheckers == 2

Checkers == 1..MaxCheckers

\* one call: pc is idle, fetching (awaiting fetch; t is the call's Date.now()),
\* answered (the store has answered, the code after the awaits has not run)
\* or done; seen is the count the call decided on
IdleCheck ==
  [pc |-> "idle", t |-> 0, resp |-> "none", path |-> "none", seen |-> 0,
   res |-> Result(FALSE, 0, Undefined)]

\* the record of a call decided by the Decide step just taken
Decided(pc, resp) ==
  [pc |-> pc, t |-> 0, resp |-> resp, path |-> rlLast'.path,
   seen |-> IF rlLast'.path = "default" THEN 1 ELSE rlLast'.countAfter,
   res |-> rlLast'.res]

\* rateLimitAsync(key, max, windowMs) up to its first await: without the
\* Upstash variables memoryRateLimit runs synchronously and the call returns;
\* otherwise now, windowId and key are computed and the request is sent
CheckBegin(p, key) ==
  /\ rq[p].pc \in {"idle", "done"}
  /\ IF ~rlCfg.configured
     THEN /\ Decide("async", key, "none", now)
          /\ rq' = [rq EXCEPT ![p] = Decided("done", "unconfigured")]
     ELSE /\ rq' = [rq EXCEPT ![p] = [IdleCheck EXCEPT !.pc = "fetching", !.t = now]]
          /\ rlLast' = NoCall
          /\ UNCHANGED <<now, rlCfg, memoryBuckets, redis, rlBegan, rlOrd, stOrd, cbVars, sse,
                         gwVars, rs, nz, ck, fb, rb>>

\* the store executes the pipeline of a pending request (INCR, PEXPIRE, PTTL)
\* and answers, or the request fails; the result of a well-formed or
\* wrong-shaped answer is a function of that answer alone
StoreAnswers(p, key) ==
  \E resp \in StoreResponses :
    /\ rq[p].pc = "fetching"
    /\ LET rkey == RedisKey(key, rq[p].t \div rlCfg.windowMs)
       IN  rkey \in DOMAIN redis => redis[rkey].count < MaxCount
    /\ IF resp \in StoreThrows
       THEN /\ rq' = [rq EXCEPT ![p] = [@ EXCEPT !.pc = "answered", !.resp = resp]]
            /\ rlLast' = NoCall
          /\ UNCHANGED <<now, rlCfg, memoryBuckets, redis, rlBegan, rlOrd, stOrd, cbVars, sse,
                         gwVars, rs, nz, ck, fb, rb>>
       ELSE /\ Decide("async", key, resp, rq[p].t)
            /\ rq' = [rq EXCEPT ![p] = Decided("answered", resp)]

\* the code after the awaits: the result of the store's answer is returned,
\* or the catch block runs memoryRateLimit at the current time
CheckSettle(p, key) ==
  /\ rq[p].pc = "answered"
  /\ IF rq[p].resp \in StoreThrows
     THEN /\ Decide("async", key, rq[p].resp, rq[p].t)
          /\ rq' = [rq EXCEPT ![p] = Decided("done", rq[p].resp)]
     ELSE /\ rq' = [rq EXCEPT ![p] = [@ EXCEPT !.pc = "done"]]
          /\ rlLast' = NoCall
          /\ UNCHANGED <<now, rlCfg, memoryBuckets, redis, rlBegan, rlOrd, stOrd, cbVars, sse,
                         gwVars, rs, nz, ck, fb, rb>>

\* rateLimit(key, max, windowMs): the synchronous, memory-only API
RateLimit(key) == Decide("sync", key, "ok", now) /\ UNCHANGED rq

\* cleanupExpired()
CleanupExpired ==
  /\ memoryBuckets' = cleanupExpired(memoryBuckets, now)
  /\ memoryBuckets' # memoryBuckets
  /\ rlLast' = NoCall
  /\ UNCHANGED <<now, rlCfg, redis, rlBegan, rlOrd, stOrd, cbVars, sse, gwVars, fnVars>>

\* the window windowId of the store is over at time t and no call made in it
\* is still awaiting the store
WindowDone(windowId, t) ==
  /\ t \div rlCfg.windowMs > windowId
  /\ \A p \in Checkers :
        rq[p].pc = "fetching" => rq[p].t \div rlCfg.windowMs # windowId

\* time passes; the store expires its keys (the history of a store window
\* ends when the window is over and no call made in it is pending)
Tick ==
  /\ now < MaxTime
  /\ now' = now + 1
  /\ redis' = RedisExpire(redis, now + 1)
  /\ stOrd' = MapDelete(stOrd, {k \in DOMAIN stOrd :
                                  WindowDone(stOrd[k].windowId, now + 1)})
  /\ rlLast' = NoCall
  /\ UNCHANGED <<rlCfg, memoryBuckets, rlBegan, rlOrd, cbVars, sse, gwVars, fnVars>>

RateLimitConfigs ==
  [max : 0..MaxMax, windowMs : 1..MaxWindow, configured : BOOLEAN]

\* the limiter under a caller that awaits each rateLimitAsync call before it
\* makes the next one (slot 1), beside rateLimit, sweeps and the clock
RlNext ==
  \/ \E key \in Keys : CheckBegin(1, key)
  \/ \E key \in Keys : StoreAnswers(1, key)
  \/ \E key \in Keys : CheckSettle(1, key)
  \/ \E key \in Keys : RateLimit(key)
  \/ CleanupExpired
  \/ Tick

\* a burst of rateLimitAsync calls at one instant
RqNext ==
  \/ \E p \in Checkers, key \in Keys : CheckBegin(p, key)
  \/ \E p \in Checkers, key \in Keys : StoreAnswers(p, key)
  \/ \E p \in Checkers, key \in Keys : CheckSettle(p, key)


\* ------------------------------------------------------------------------
\* Circuit breaker (ErrorRecovery.createCircuitBreaker)
\* ------------------------------------------------------------------------
\* failureThreshold ranges over 1..MaxThreshold
MaxThreshold == 2
\* recoveryTimeout ranges over 1..MaxRecovery
MaxRecovery == 2
\* at most MaxCalls calls of the breaker are in flight at once
MaxCalls == 2

CallIds == 1..MaxCalls

IdleCall == [pc |-> "idle", now |-> 0, trial |-> FALSE]

\* openedAt: when the failure that last opened the circuit was observed
NoStep ==
  [ev |-> "none", trial |-> FALSE, callNow |-> 0, age |-> 0, streak |-> 0,
   openedAt |-> Undefined]

\* the condition under which a failure opens the circuit
Tripped(f, failureThreshold) == f >= failureThreshold

\* the recovery check at the head of a call made at time t
ShouldRecover(st, lft, recoveryTimeout, t) == st = "OPEN" /\ t - lft > recoveryTimeout

\* a call of the closure up to its first suspension: the recovery check, the
\* fail-fast throw, or the invocation of operation()
CallStart(p) ==
  LET recover == ShouldRecover(cbState, lastFailureTime, cbCfg.recoveryTimeout, now)
      st1     == IF recover THEN "HALF_OPEN" ELSE cbState
      f1      == IF recover THEN 0 ELSE failures
  IN
  /\ calls[p].pc = "idle"
  /\ cbState' = st1
  /\ failures' = f1
  /\ IF st1 = "OPEN"
     THEN \* throw new Error('Circuit breaker is OPEN')
          /\ calls' = calls
          /\ cbLast' = [ev |-> "reject", trial |-> FALSE, callNow |-> now,
                        age |-> now - lastFailureTime, streak |-> cbStreak,
                        openedAt |-> cbLast.openedAt]
     ELSE \* await operation()
          /\ calls' = [calls EXCEPT ![p] = [pc |-> "inflight", now |-> now,
                                            trial |-> st1 = "HALF_OPEN"]]
          /\ cbLast' = [ev |-> "invoke", trial |-> st1 = "HALF_OPEN", callNow |-> now,
                        age |-> now - lastFailureTime, streak |-> cbStreak,
                        openedAt |-> cbLast.openedAt]
  /\ UNCHANGED <<now, lastFailureTime, cbCfg, cbStreak, rlVars, sse, gwVars, fnVars>>

\* operation() resolves
CallSucceed(p) ==
  /\ calls[p].pc = "inflight"
  /\ cbState' = IF cbState = "HALF_OPEN" THEN "CLOSED" ELSE cbState
  /\ failures' = 0
  /\ calls' = [calls EXCEPT ![p] = IdleCall]
  /\ cbStreak' = 0
  /\ cbLast' = [ev |-> "success", trial |-> calls[p].trial, callNow |-> calls[p].now,
                age |-> 0, streak |-> cbStreak, openedAt |-> cbLast.openedAt]
  /\ UNCHANGED <<now, lastFailureTime, cbCfg, rlVars, sse, gwVars, fnVars>>

\* operation() rejects
CallFail(p) ==
  /\ calls[p].pc = "inflight"
  /\ failures' = failures + 1
  /\ lastFailureTime' = calls[p].now
  /\ cbState' = IF Tripped(failures + 1, cbCfg.failureThreshold) THEN "OPEN" ELSE cbState
  /\ calls' = [calls EXCEPT ![p] = IdleCall]
  /\ cbStreak' = IF cbStreak > MaxThreshold THEN cbStreak ELSE cbStreak + 1
  /\ cbLast' = [ev |-> "failure", trial |-> calls[p].trial, callNow |-> calls[p].now,
                age |-> 0, streak |-> cbStreak,
                openedAt |-> IF /\ Tripped(failures + 1, cbCfg.failureThreshold)
                                /\ cbState # "OPEN"
                             THEN now ELSE cbLast.openedAt]
  /\ UNCHANGED <<now, cbCfg, rlVars, sse, gwVars, fnVars>>

BreakerConfigs ==
  [failureThreshold : 1..MaxThreshold, recoveryTimeout : 1..MaxRecovery]

CbNext ==
  \/ \E p \in CallIds : CallStart(p)
  \/ \E p \in CallIds : CallSucceed(p)
  \/ \E p \in CallIds : CallFail(p)
  \/ Tick

\* ------------------------------------------------------------------------
\* Raw-mode SSE stream (POST of route.ts, OpenRouterProvider.sendMessageStream)
\* ------------------------------------------------------------------------
\* the provider's stream delivers at most MaxChunks chunks
MaxChunks == 3
\* the heartbeat interval fires at most MaxBeats times in a session
MaxBeats == 2

\* chunk?.choices?.[0]?.delta?.content of a chunk; "" stands for a chunk
\* without content
Contents == {"", "a", "b", "[done]"}

Frame(kind, data) == [kind |-> kind, data |-> data]

NoSession ==
  [pc        |-> "none",     \* start(): none, awaiting (in for await), finished
   state     |-> "none",     \* the ReadableStream: readable, closed, errored, cancelled
   closing   |-> FALSE,      \* close() was called with frames still queued
   unread    |-> 0,          \* frames in the stream's queue, not yet read
   pending   |-> FALSE,      \* a read() of the consumer waits for a frame
   frames    |-> << >>,      \* what send() has enqueued, in order
   heartbeat |-> FALSE,      \* the interval is set and not cleared
   provider  |-> "none",     \* the generator: running, ended, threw, returned
   yielded   |-> << >>,      \* the tokens sendMessageStream has yielded
   aborted   |-> FALSE,      \* controller.abort() has been called
   signal    |-> FALSE,      \* the inbound request's signal has aborted
   overdue   |-> FALSE,      \* maxDuration has elapsed since the request began
   chunks    |-> 0,
   beats     |-> 0,
   threw     |-> FALSE]      \* a heartbeat's enqueue threw inside the timer callback

\* streamController.enqueue is legal only on a readable stream on which
\* close() has not been called
CanEnqueue(s) == s.state = "readable" /\ ~s.closing

\* send(data) when enqueue is legal: the frame goes to the waiting read(),
\* or into the queue
Send(s, kind, data) ==
  [s EXCEPT !.frames = Append(@, Frame(kind, data)),
            !.pending = FALSE,
            !.unread = IF s.pending THEN @ ELSE @ + 1]

\* catch (e) { clearInterval(heartbeatId); streamController.error(e) }: an
\* error on a readable stream drops the queue and fails the waiting read()
Catch(s, prov) ==
  [s EXCEPT !.heartbeat = FALSE,
            !.state = IF @ = "readable" THEN "errored" ELSE @,
            !.unread = IF s.state = "readable" THEN 0 ELSE @,
            !.pending = IF s.state = "readable" THEN FALSE ELSE @,
            !.pc = "finished",
            !.provider = prov]

\* streamController.close(): the stream closes at once when its queue is
\* empty, and otherwise once the consumer has read the queued frames
Close(s) ==
  IF s.unread = 0 THEN [s EXCEPT !.state = "closed"]
  ELSE [s EXCEPT !.closing = TRUE]

\* (variant of Finish: the terminal sentinel is not sent)
FinishNoSentinel(s) ==
  Close([s EXCEPT !.heartbeat = FALSE, !.pc = "finished", !.provider = "ended",
                  !.pending = FALSE])

\* send('[done]'); clearInterval(heartbeatId); streamController.close()
Finish(s) ==
  Close([Send(s, "done", "[done]") EXCEPT !.heartbeat = FALSE,
                                          !.pc = "finished", !.provider = "ended"])

\* if (token) yield token
Yields(content) == content # ""

\* new ReadableStream({ start }): the interval is set, the provider is called
StreamOpen ==
  /\ sse.pc = "none"
  /\ sse' = [sse EXCEPT !.pc = "awaiting", !.state = "readable",
                        !.heartbeat = TRUE, !.provider = "running"]
  /\ UNCHANGED <<now, rlVars, cbVars, gwVars, fnVars>>

\* the provider's stream delivers a chunk; a token is yielded and sent
ProviderChunk ==
  \E content \in Contents :
    /\ sse.pc = "awaiting" /\ sse.provider = "running"
    /\ sse.chunks < MaxChunks
    /\ LET s1 == [sse EXCEPT !.chunks = @ + 1]
           s2 == [s1 EXCEPT !.yielded = Append(@, content)]
       IN  sse' = IF ~Yields(content) THEN s1
                  ELSE IF CanEnqueue(s2) THEN Send(s2, "token", content)
                  ELSE Catch(s2, "returned")
    /\ UNCHANGED <<now, rlVars, cbVars, gwVars, fnVars>>

\* the provider's stream ends: the loop exits
ProviderEnd ==
  /\ sse.pc = "awaiting" /\ sse.provider = "running"
  /\ sse' = IF CanEnqueue(sse) THEN Finish(sse) ELSE Catch(sse, "ended")
  /\ UNCHANGED <<now, rlVars, cbVars, gwVars, fnVars>>

\* the provider call rejects or its stream throws
ProviderThrow ==
  /\ sse.pc = "awaiting" /\ sse.provider = "running"
  /\ sse' = Catch(sse, "threw")
  /\ UNCHANGED <<now, rlVars, cbVars, gwVars, fnVars>>

\* the interval fires: send('[heartbeat]')
Heartbeat ==
  /\ sse.heartbeat
  /\ sse.beats < MaxBeats
  /\ sse' = IF CanEnqueue(sse)
            THEN [Send(sse, "heartbeat", "[heartbeat]") EXCEPT !.beats = @ + 1]
            ELSE [sse EXCEPT !.beats = @ + 1, !.threw = TRUE]
  /\ UNCHANGED <<now, rlVars, cbVars, gwVars, fnVars>>

\* the consumer cancels the stream, which is still readable while queued
\* frames await reading after close(): the queue is dropped and the source's
\* cancel() { controller.abort() } runs
StreamCancel ==
  /\ sse.state = "readable"
  /\ sse' = [sse EXCEPT !.state = "cancelled", !.aborted = TRUE, !.closing = FALSE,
                        !.unread = 0, !.pending = FALSE]
  /\ UNCHANGED <<now, rlVars, cbVars, gwVars, fnVars>>

\* the consumer calls read(): it takes the next queued frame (the last one
\* after close() closes the stream) or waits for one
ConsumerRead ==
  /\ sse.state = "readable"
  /\ IF sse.unread > 0
     THEN sse' = [sse EXCEPT !.unread = @ - 1,
                             !.closing = IF sse.unread = 1 THEN FALSE ELSE @,
                             !.state = IF sse.closing /\ sse.unread = 1
                                       THEN "closed" ELSE @]
     ELSE /\ ~sse.pending
          /\ sse' = [sse EXCEPT !.pending = TRUE]
  /\ UNCHANGED <<now, rlVars, cbVars, gwVars, fnVars>>

\* the inbound request's signal aborts: () => controller.abort()
RequestAbort ==
  /\ sse.pc # "none"
  /\ ~sse.signal
  /\ sse' = [sse EXCEPT !.aborted = TRUE, !.signal = TRUE]
  /\ UNCHANGED <<now, rlVars, cbVars, gwVars, fnVars>>

\* maxDuration seconds have passed since the request began; the raw path
\* sets no timer and wraps nothing in withTimeout, so nothing reacts
DeadlineElapses ==
  /\ sse.pc # "none"
  /\ ~sse.overdue
  /\ sse' = [sse EXCEPT !.overdue = TRUE]
  /\ UNCHANGED <<now, rlVars, cbVars, gwVars, fnVars>>

SseNext ==
  \/ StreamOpen
  \/ ProviderChunk
  \/ ProviderEnd
  \/ ProviderThrow
  \/ Heartbeat
  \/ StreamCancel
  \/ ConsumerRead
  \/ RequestAbort
  \/ DeadlineElapses

\* ------------------------------------------------------------------------
\* Provider client resolver (getModelClient)
\* ------------------------------------------------------------------------
\* the providers of the `resolved` table, which take an API key
KeyProviders ==
  {"openai", "anthropic", "google", "mistral", "groq", "togetherai",
   "fireworks", "xai", "deepseek"}

\* the keys of providerConfigs
KnownProviders == KeyProviders \cup {"ollama", "vertex"}

\* the environment variable of a provider's API key
KeyVar(p) ==
  CASE p = "openai"     -> "OPENAI_API_KEY"
    [] p = "anthropic"  -> "ANTHROPIC_API_KEY"
    [] p = "google"     -> "GOOGLE_AI_API_KEY"
    [] p = "mistral"    -> "MISTRAL_API_KEY"
    [] p = "groq"       -> "GROQ_API_KEY"
    [] p = "togetherai" -> "TOGETHER_API_KEY"
    [] p = "fireworks"  -> "FIREWORKS_API_KEY"
    [] p = "xai"        -> "XAI_API_KEY"
    [] p = "deepseek"   -> "DEEPSEEK_API_KEY"
    [] OTHER            -> "NONE"

\* an absent string (undefined)
NoString == "undefined"

\* JavaScript truthiness of an optional string
Truthy(str) == str # NoString /\ str # ""

\* process.env[name]: the variables of env.keys are set to a non-empty value
EnvGet(env, name) == IF name \in env.keys THEN "env:" \o name ELSE NoString

\* a || b on optional strings
OrElse(a, b) == IF Truthy(a) THEN a ELSE b

\* const required = ['client_email', 'private_key', 'project_id']
required == <<"client_email", "private_key", "project_id">>

VertexFields == {required[i] : i \in 1..Len(required)}

\* Array.prototype.join(', ')
RECURSIVE Join(_)
Join(seq) ==
  IF seq = << >> THEN ""
  ELSE IF Len(seq) = 1 THEN Head(seq)
  ELSE Head(seq) \o ", " \o Join(Tail(seq))

\* the stack an Error captures where it is constructed
Stacks == {"stack:a", "stack:b"}

\* an error value: its name, HTTP status, provider code, whether its message
\* matches /credentials/i, the provider field of a ProviderConfigError, its
\* message, the name of its cause and its stack
ErrorValue(name, status, code, cred, provider, message, cause, stack) ==
  [name |-> name, status |-> status, code |-> code, cred |-> cred,
   provider |-> provider, message |-> message, cause |-> cause, stack |-> stack]

Err(name, status, code, cred, provider) ==
  ErrorValue(name, status, code, cred, provider, "failed", "none", "stack:a")

\* new ProviderConfigError(provider, message); cred tells whether the message
\* matches /credentials/i
ProviderConfigError(provider, message, cred) ==
  ErrorValue("ProviderConfigError", Undefined, NoString, cred, provider, message,
             "none", "stack:a")

NoError == ErrorValue("none", Undefined, NoString, FALSE, NoString, "", "none", "")

\* names every object literal inherits from Object.prototype
ObjectPrototypeNames == {"constructor", "toString", "__proto__"}

\* providerConfigs[providerId]: the closure registered for the provider, a
\* member inherited from Object.prototype, or undefined
createClientOf(providerId) ==
  IF providerId \in KnownProviders THEN "closure"
  ELSE IF providerId \in ObjectPrototypeNames THEN "inherited"
  ELSE "undefined"

\* the SDK factory the closure of a provider calls
Factory(p) ==
  CASE p = "anthropic" -> "createAnthropic"
    [] p = "google"    -> "createGoogleGenerativeAI"
    [] p = "mistral"   -> "createMistral"
    [] p = "ollama"    -> "createOllama"
    [] p = "fireworks" -> "createFireworks"
    [] p = "vertex"    -> "createVertex"
    [] OTHER           -> "createOpenAI"

\* (variant of RequiresKey: no provider is required to have a key)
RequiresKeyNever(providerId) == FALSE

\* const requiresKey = !['ollama', 'vertex'].includes(providerId)
RequiresKey(providerId) == providerId \notin {"ollama", "vertex"}

\* (variant of ResolvedApiKey: every provider falls back on OPENAI_API_KEY)
ResolvedApiKeyShared(providerId, apiKey, env) ==
  IF providerId \in KeyProviders
  THEN OrElse(apiKey, EnvGet(env, "OPENAI_API_KEY"))
  ELSE NoString

\* (variant of ResolvedApiKey: ?? in place of ||, so that an empty config.apiKey
\* is the effective key)
ResolvedApiKeyNullish(providerId, apiKey, env) ==
  IF providerId \in KeyProviders
  THEN IF apiKey # NoString THEN apiKey ELSE EnvGet(env, KeyVar(providerId))
  ELSE NoString

\* (resolved as any)[providerId]?.apiKey
ResolvedApiKey(providerId, apiKey, env) ==
  IF providerId \in KeyProviders
  THEN OrElse(apiKey, EnvGet(env, KeyVar(providerId)))
  ELSE NoString

\* a constructed client: the closure of providerConfigs that built it, the
\* SDK factory it called and the key it was given
Client(closure, factory, apiKey) ==
  [closure |-> closure, factory |-> factory, apiKey |-> apiKey]

NoClient == Client("none", "none", NoString)

\* (variant of MissingFields: the first absent field only)
MissingFieldsFirst(blob) ==
  LET absent(k) == k \notin blob.fields
      all == SelectSeq(required, absent)
  IN  IF all = << >> THEN all ELSE <<Head(all)>>

\* required.filter((k) => !credentials?.[k]) on the parsed blob: the fields
\* without a truthy value, in the order of required
MissingFields(blob) ==
  LET absent(k) == k \notin blob.fields
  IN  SelectSeq(required, absent)

\* the vertex closure of providerConfigs
vertexClient(env) ==
  IF ~env.vertex.parses
  THEN [ok |-> FALSE, client |-> NoClient,
        error |-> ProviderConfigError("vertex",
                    "Invalid JSON in GOOGLE_VERTEX_CREDENTIALS", TRUE)]
  ELSE IF MissingFields(env.vertex) # << >>
  THEN [ok |-> FALSE, client |-> NoClient,
        error |-> ProviderConfigError("vertex",
                    "Missing required Vertex credential fields: "
                      \o Join(MissingFields(env.vertex)), FALSE)]
  ELSE [ok |-> TRUE, error |-> NoError,
        client |-> Client("vertex", Factory("vertex"), NoString)]

\* getModelClient(model, config): the client or the error thrown
getModelClient(providerId, apiKey, env) ==
  IF createClientOf(providerId) = "undefined"
  THEN [ok |-> FALSE, client |-> NoClient,
        error |-> ErrorValue("Error", Undefined, NoString, FALSE, NoString,
                             "Unsupported provider: " \o providerId, "none", "stack:a")]
  ELSE IF RequiresKey(providerId)
          /\ ~Truthy(ResolvedApiKey(providerId, apiKey, env))
  THEN [ok |-> FALSE, client |-> NoClient,
        error |-> ProviderConfigError(providerId,
                    "Missing API key for provider: " \o providerId, FALSE)]
  ELSE IF providerId = "vertex" THEN vertexClient(env)
  ELSE [ok |-> TRUE, error |-> NoError,
        client |-> Client(providerId, Factory(providerId),
                          ResolvedApiKey(providerId, apiKey, env))]

\* ------------------------------------------------------------------------
\* Fallback chain (FALLBACK_CONFIG, FallbackManager)
\* ------------------------------------------------------------------------
aiProviders == <<"openai", "anthropic", "mistral", "groq">>

\* Array.prototype.indexOf, 1-based; 0 when absent
IndexOf(seq, x) ==
  IF \E i \in 1..Len(seq) : seq[i] = x
  THEN CHOOSE i \in 1..Len(seq) : seq[i] = x /\ \A j \in 1..(i - 1) : seq[j] # x
  ELSE 0

\* FallbackManager.getFallbackProvider(currentProvider); NoString for null
getFallbackProvider(currentProvider) ==
  LET index == IndexOf(aiProviders, currentProvider)
  IN  IF index = 0 \/ index = Len(aiProviders) THEN NoString
      ELSE aiProviders[index + 1]

\* FALLBACK_CONFIG.templateFallbacks[template]; << >> when the template has
\* no entry
templateFallbacks(template) ==
  CASE template = "nextjs-developer"    -> <<"vue-developer", "streamlit-developer">>
    [] template = "vue-developer"       -> <<"nextjs-developer", "streamlit-developer">>
    [] template = "streamlit-developer" -> <<"gradio-developer", "vue-developer">>
    [] template = "gradio-developer"    -> <<"streamlit-developer", "vue-developer">>
    [] OTHER                            -> << >>

\* FallbackManager.getFallbackTemplate(currentTemplate); NoString for null
getFallbackTemplate(currentTemplate) ==
  LET fallbacks == templateFallbacks(currentTemplate)
  IN  IF Len(fallbacks) = 0 THEN NoString ELSE fallbacks[1]

\* a traversal takes at most MaxHops fallbacks
MaxHops == 5

ChainProviders == {aiProviders[i] : i \in 1..Len(aiProviders)}

Templates ==
  {"nextjs-developer", "vue-developer", "streamlit-developer", "gradio-developer"}

\* the environments of a traversal: which providers of the chain have a key
ChainEnvs == [keys : SUBSET {KeyVar(p) : p \in ChainProviders}]

\* error is the type categorizeError gave the error of the last template hop
NoTraversal ==
  [pc |-> "none", kind |-> "none", prev |-> NoString, cur |-> NoString,
   visited |-> << >>, env |-> [keys |-> {}], error |-> "none"]

\* the substrings categorizeError looks for in error.message.toLowerCase()
Markers ==
  {"timeout", "timed out", "memory", "out of memory", "network", "connection",
   "file", "directory"}

\* an error message, as the set of the markers it contains ('out of memory'
\* contains 'memory')
Messages == {m \in SUBSET Markers : "out of memory" \in m => "memory" \in m}

\* SandboxErrorHandler.categorizeError(error): the type of the SandboxError
categorizeError(message) ==
  IF "timeout" \in message \/ "timed out" \in message THEN "TIMEOUT"
  ELSE IF "memory" \in message \/ "out of memory" \in message THEN "MEMORY_EXCEEDED"
  ELSE IF "network" \in message \/ "connection" \in message THEN "NETWORK_ERROR"
  ELSE IF "file" \in message \/ "directory" \in message THEN "FILESYSTEM_ERROR"
  ELSE "EXECUTION_ERROR"

\* SandboxErrorHandler.handleSandboxCreationError(error, templateId)
handleSandboxCreationError(message, templateId) ==
  LET type             == categorizeError(message)
      fallbackTemplate == getFallbackTemplate(templateId)
  IN  IF type \in {"EXECUTION_ERROR", "TIMEOUT"} /\ fallbackTemplate # NoString
      THEN [useFallback |-> TRUE, template |-> fallbackTemplate, error |-> type]
      ELSE [useFallback |-> FALSE, template |-> NoString, error |-> type]

\* the traversals that can be started: from a provider (known to the chain or
\* not) under an environment, or from a template (known or not)
Traversals ==
  {[NoTraversal EXCEPT !.pc = "ready", !.kind = "provider", !.cur = p,
                       !.visited = <<p>>, !.env = env] :
       p \in ChainProviders \cup {"bogus"}, env \in ChainEnvs}
  \cup
  {[NoTraversal EXCEPT !.pc = "ready", !.kind = "template", !.cur = t,
                       !.visited = <<t>>] :
       t \in Templates \cup {"unknown-template"}}

\* the caller takes the fallback `next` of the current element
Hop(t, next) ==
  IF next = NoString
  THEN [t EXCEPT !.pc = "stopped", !.prev = t.cur, !.cur = NoString]
  ELSE [t EXCEPT !.prev = t.cur, !.cur = next, !.visited = Append(@, next)]

\* fallbackManager.getFallbackProvider(current), repeated by the caller
ProviderHop ==
  /\ fb.pc = "ready" /\ fb.kind = "provider"
  /\ Len(fb.visited) <= MaxHops
  /\ fb' = Hop(fb, getFallbackProvider(fb.cur))
  /\ UNCHANGED <<now, rlVars, cbVars, sse, gwVars, rs, nz, ck, rb, rq>>

\* sandbox creation with the current template fails with some error and the
\* caller follows handleSandboxCreationError: the fallback template when
\* useFallback, otherwise the degraded result
TemplateHop ==
  /\ fb.pc = "ready" /\ fb.kind = "template"
  /\ Len(fb.visited) <= MaxHops
  /\ \E message \in Messages :
       LET out == handleSandboxCreationError(message, fb.cur)
       IN  fb' = [Hop(fb, out.template) EXCEPT !.error = out.error]
  /\ UNCHANGED <<now, rlVars, cbVars, sse, gwVars, rs, nz, ck, rb, rq>>

FbNext ==
  \/ ProviderHop
  \/ TemplateHop

\* ------------------------------------------------------------------------
\* Retry with backoff (ErrorRecovery.retryWithBackoff)
\* ------------------------------------------------------------------------
\* maxRetries ranges over 0..MaxRetries
MaxRetries == 4
\* baseDelay ranges over 0..MaxBaseDelay
MaxBaseDelay == 3

\* one call: pc is none, called, invoking (awaiting operation()), waiting
\* (awaiting the timer), resolved or rejected; the k-th invocation of the
\* operation throws the error k; the rejection value of `throw lastError!`
\* with lastError never assigned is undefined
NoRetry ==
  [pc |-> "none", maxRetries |-> 0, baseDelay |-> 0, i |-> 0, invoked |-> 0,
   waits |-> << >>, lastError |-> Undefined, error |-> Undefined]

RetryCalls ==
  {[NoRetry EXCEPT !.pc = "called", !.maxRetries = m, !.baseDelay = d] :
      m \in 0..MaxRetries, d \in 0..MaxBaseDelay}

\* const delay = baseDelay * Math.pow(2, i)
Delay(baseDelay, i) == baseDelay * 2^i

\* the head of the for loop with counter i: the operation is invoked, or the
\* loop is left and `throw lastError!` rejects
LoopHead(r, i) ==
  IF i < r.maxRetries
  THEN [r EXCEPT !.pc = "invoking", !.i = i, !.invoked = @ + 1]
  ELSE [r EXCEPT !.pc = "rejected", !.i = i, !.error = r.lastError]

\* retryWithBackoff is called: the loop is entered
RetryEnter ==
  /\ rb.pc = "called"
  /\ rb' = LoopHead(rb, 0)
  /\ UNCHANGED <<now, rlVars, cbVars, sse, gwVars, rs, nz, ck, fb, rq>>

\* return await operation(): the operation resolves
OperationResolves ==
  /\ rb.pc = "invoking"
  /\ rb' = [rb EXCEPT !.pc = "resolved"]
  /\ UNCHANGED <<now, rlVars, cbVars, sse, gwVars, rs, nz, ck, fb, rq>>

\* the operation rejects: the catch block rethrows on the last round and
\* otherwise starts the timer of the backoff delay
OperationThrows ==
  /\ rb.pc = "invoking"
  /\ LET r1 == [rb EXCEPT !.lastError = rb.invoked]
     IN  rb' = IF rb.i = rb.maxRetries - 1
               THEN [r1 EXCEPT !.pc = "rejected", !.error = r1.lastError]
               ELSE [r1 EXCEPT !.pc = "waiting",
                               !.waits = Append(@, Delay(rb.baseDelay, rb.i))]
  /\ UNCHANGED <<now, rlVars, cbVars, sse, gwVars, rs, nz, ck, fb, rq>>

\* the timer of the delay fires: i++ and the loop head
TimerFires ==
  /\ rb.pc = "waiting"
  /\ rb' = LoopHead(rb, rb.i + 1)
  /\ UNCHANGED <<now, rlVars, cbVars, sse, gwVars, rs, nz, ck, fb, rq>>

RbNext ==
  \/ RetryEnter
  \/ OperationResolves
  \/ OperationThrows
  \/ TimerFires

\* ------------------------------------------------------------------------
\* Calls of the resolver
\* ------------------------------------------------------------------------
\* model.providerId as passed to getModelClient
ResolverProviders == KnownProviders \cup {"bogus"} \cup ObjectPrototypeNames

KeyVars == {KeyVar(p) : p \in KeyProviders}

\* the parsed GOOGLE_VERTEX_CREDENTIALS: whether it parses, the required
\* fields with a truthy value, the required fields present with an empty one
VertexBlobs ==
  {[parses |-> FALSE, fields |-> {}, blank |-> {}]}
  \cup {b \in [parses : {TRUE}, fields : SUBSET VertexFields,
               blank : SUBSET VertexFields] : b.fields \cap b.blank = {}}

ResolverEnvs ==
  [keys   : {ks \in SUBSET KeyVars :
               Cardinality(ks) <= 1 \/ Cardinality(ks) >= Cardinality(KeyVars) - 1},
   vertex : VertexBlobs]

NoResolve ==
  [pc |-> "none", providerId |-> "openai", apiKey |-> NoString,
   env |-> [keys |-> {}, vertex |-> [parses |-> TRUE, fields |-> {}, blank |-> {}]],
   out |-> [ok |-> FALSE, client |-> NoClient, error |-> NoError]]

ResolverCalls ==
  {[NoResolve EXCEPT !.pc = "called", !.providerId = p, !.apiKey = k, !.env = e] :
      p \in ResolverProviders, k \in {NoString, "", "sk-config"}, e \in ResolverEnvs}

\* getModelClient(model, config) returns or throws
Resolve ==
  /\ rs.pc = "called"
  /\ rs' = [rs EXCEPT !.pc = "settled",
                      !.out = getModelClient(rs.providerId, rs.apiKey, rs.env)]
  /\ UNCHANGED <<now, rlVars, cbVars, sse, gwVars, nz, ck, fb, rb, rq>>

RsNext == Resolve

\* ------------------------------------------------------------------------
\* Client key (getClientKey)
\* ------------------------------------------------------------------------
\* String.prototype.trim on the items of a forwarded-for header
Trim(str) ==
  CASE str = " "    -> ""
    [] str = " x "  -> "x"
    [] OTHER        -> str

\* the items of a header value, as split(',') yields them
XffItems == {"", " ", "x", " x "}

\* req.headers.get('x-forwarded-for'): << >> for null, else its items
XffHeaders ==
  {<< >>} \cup {<<a>> : a \in XffItems} \cup {<<a, b>> : a \in XffItems, b \in XffItems}

\* (h('x-forwarded-for') || '').split(','): an absent or empty header gives ['']
Split(xff) == IF xff = << >> THEN <<"">> ELSE xff

\* userID, teamID and x-real-ip as they arrive
OptionalTexts == {NoString, "", "x", "y"}

\* (variant of getClientKey: the team is preferred to the user)
getClientKeyTeamFirst(userID, teamID, xff, realIp) ==
  IF Truthy(teamID) THEN "tid:" \o teamID
  ELSE IF Truthy(userID) THEN "uid:" \o userID
  ELSE "ip:" \o OrElse(OrElse(Trim(Split(xff)[1]), realIp), "unknown")

\* getClientKey(req, { userID, teamID })
getClientKey(userID, teamID, xff, realIp) ==
  IF Truthy(userID) THEN "uid:" \o userID
  ELSE IF Truthy(teamID) THEN "tid:" \o teamID
  ELSE "ip:" \o OrElse(OrElse(Trim(Split(xff)[1]), realIp), "unknown")

NoKeyCall ==
  [pc |-> "none", userID |-> NoString, teamID |-> NoString, xff |-> << >>,
   realIp |-> NoString, key |-> NoString]

KeyCalls ==
  {[NoKeyCall EXCEPT !.pc = "called", !.userID = u, !.teamID = t, !.xff = x,
                     !.realIp = r] :
      u \in OptionalTexts, t \in OptionalTexts, x \in XffHeaders, r \in OptionalTexts}

\* getClientKey returns
GetClientKey ==
  /\ ck.pc = "called"
  /\ ck' = [ck EXCEPT !.pc = "returned",
                      !.key = getClientKey(ck.userID, ck.teamID, ck.xff, ck.realIp)]
  /\ UNCHANGED <<now, rlVars, cbVars, sse, gwVars, rs, nz, fb, rb, rq>>

CkNext == GetClientKey

\* ------------------------------------------------------------------------
\* Request orchestrator (POST of src/app/api/chat/route.ts)
\* ------------------------------------------------------------------------
Methods == {"POST", "GET"}
Bodies == {"malformed", "invalid", "valid"}
Modes == {"text", "ast", "raw"}
ProviderSelections == {"default", "openrouter"}
\* model.providerId as sent by clients
RequestedProviders == {"openai", "ollama", "vertex", "openrouter", "bogus"}
\* config.apiKey and the apiKey override as sent by clients
ConfigKeys == {NoString, "", "sk-config"}
OverrideKeys == {NoString, "sk-override"}

\* the environments of the gateway
GatewayEnvs ==
  [keys   : SUBSET {"OPENAI_API_KEY", "GROQ_API_KEY", "OPENROUTER_API_KEY"},
   vertex : {[parses |-> TRUE, fields |-> {}, blank |-> {}],
             [parses |-> TRUE, fields |-> VertexFields, blank |-> {}]}]

\* what the awaited generation call can settle with
GenerationErrors ==
  {Err("ZodError", Undefined, NoString, FALSE, NoString),
   Err("SyntaxError", Undefined, NoString, FALSE, NoString),
   Err("Error", Undefined, NoString, TRUE, NoString),
   Err("APIError", 401, NoString, FALSE, NoString),
   Err("APIError", 429, NoString, FALSE, NoString),
   Err("APIError", 503, NoString, FALSE, NoString),
   Err("APIError", 404, "model_not_found", FALSE, NoString),
   Err("Error", Undefined, NoString, FALSE, NoString)}

\* a response: status, error.code, kind of body, names of its headers, the
\* value of Retry-After and error.details as a set of <<field, value>>
Response(status, code, kind, headers) ==
  [status |-> status, code |-> code, kind |-> kind, headers |-> headers,
   retryAfter |-> Undefined, details |-> {}]

NoResponse == Response(0, NoString, "none", {})

\* jsonError(code, message, status, details)
jsonError(code, status) == Response(status, code, "json", {"Content-Type"})

\* jsonError with its details argument
jsonErrorDetails(code, status, details) ==
  [jsonError(code, status) EXCEPT !.details = details]

\* Math.ceil(a / b)
Ceil(a, b) == -((-a) \div b)

\* a status that is not a number (typeof status !== 'number')
StringStatus == -2

\* model.id and the generated request id, as they appear in details
ModelId == "model.id"
RequestId == "requestId"

NoResult == Result(FALSE, 0, Undefined)

NoRequest ==
  [pc |-> "idle", method |-> "POST", body |-> "valid", mode |-> "text",
   providerSel |-> "default", providerId |-> "openai", apiKey |-> NoString,
   override |-> NoString, checked |-> FALSE, rl |-> NoResult,
   resolves |-> << >>, tried |-> << >>, fallbacks |-> 0,
   candidate |-> NoString, resp |-> NoResponse,
   t |-> 0, store |-> "none"]  \* the pending rateLimitAsync call: its Date.now()
                               \* and the store's answer

\* (variant of Limited: the refusal read off remaining instead of allowed)
LimitedByRemaining(rl) == rl.remaining < 0

\* the rate limiter's answer stops the request
Limited(rl) == ~rl.allowed

\* parseJson(ChatRequestSchema) accepts the body
ParseOk(body) == body = "valid"

\* (variant of FallbackEligible: every error triggers the fallback)
FallbackOnAnyError(e) == e.name # "none"

\* the errors on which the catch block attempts the fallback
FallbackEligible(e) == e.name = "ProviderConfigError"

\* (variant of ConfigErrorDetails: the error's stack is passed along)
ConfigErrorDetailsWithStack(e) ==
  {<<"provider", e.provider>>, <<"suggestion", "configure the API key">>,
   <<"stack", e.stack>>}

\* the details of a provider_config_error envelope
ConfigErrorDetails(e) ==
  {<<"provider", e.provider>>, <<"suggestion", "configure the API key">>}

\* (error?.issues || error?.cause?.issues) ?? undefined
ZodDetails(e) == {<<"issues", "zod issues">>}

\* { provider: model?.providerId, model: model?.id, requestId }
DefaultDetails(providerId) ==
  {<<"provider", providerId>>, <<"model", ModelId>>, <<"requestId", RequestId>>}

\* the normalisation of an error into the JSON envelope, for a request whose
\* model.providerId is providerId
Normalize(e, providerId) ==
  IF e.name = "ProviderConfigError"
  THEN jsonErrorDetails("provider_config_error", 400, ConfigErrorDetails(e))
  ELSE IF e.name = "ZodError" \/ e.cause = "ZodError"
  THEN jsonErrorDetails("schema_validation_error", 400, ZodDetails(e))
  ELSE IF e.name = "SyntaxError" \/ e.cred THEN jsonError("invalid_provider_config", 400)
  ELSE IF e.status \in {401, 403} THEN jsonError("unauthorized", e.status)
  ELSE IF e.status = 429 THEN jsonError("rate_limited", 429)
  ELSE IF e.status \in {503, 529} THEN jsonError("provider_unavailable", e.status)
  ELSE jsonErrorDetails(IF Truthy(e.code) THEN e.code ELSE "generation_failed",
                        IF e.status \notin {Undefined, StringStatus}
                        THEN e.status ELSE 500,
                        DefaultDetails(providerId))

\* the errors the catch block of POST can receive
RawErrors ==
  [name     : {"ProviderConfigError", "ZodError", "SyntaxError", "Error", "APIError"},
   status   : {Undefined, StringStatus, 401, 403, 429, 503, 529, 404, 500},
   code     : {NoString, "model_not_found"},
   cred     : BOOLEAN,
   provider : {NoString, "openai"},
   message  : {"failed"},
   cause    : {"none", "ZodError"},
   stack    : Stacks]

NoNormalize ==
  [pc |-> "none", e |-> NoError, providerId |-> "openai",
   out |-> Response(0, NoString, "none", {})]

NormalizerCalls ==
  {[NoNormalize EXCEPT !.pc = "caught", !.e = e] : e \in RawErrors}

\* the catch block answers with the normalised envelope (no fallback applies)
NormalizeError ==
  /\ nz.pc = "caught"
  /\ nz' = [nz EXCEPT !.pc = "answered", !.out = Normalize(nz.e, nz.providerId)]
  /\ UNCHANGED <<now, rlVars, cbVars, sse, gwVars, rs, ck, fb, rb, rq>>

NzNext == NormalizeError

StreamHeaders == {"Content-Type", "Cache-Control", "X-Request-Id", "X-Provider", "X-Model"}

\* the providers of providerPriority, in order, with their key variables
providerPriority ==
  << [key |-> "GROQ_API_KEY",     providerId |-> "groq"],
     [key |-> "MISTRAL_API_KEY",  providerId |-> "mistral"],
     [key |-> "OPENAI_API_KEY",   providerId |-> "openai"],
     [key |-> "TOGETHER_API_KEY", providerId |-> "togetherai"] >>

\* the loop over providerPriority: the first provider other than providerSel
\* whose key is set is logged ("Could fall back to ...") and the loop breaks;
\* no client is created and no generation is run
LoggedCandidate(providerSel, env) ==
  LET viable == {i \in 1..Len(providerPriority) :
                   /\ providerPriority[i].providerId # providerSel
                   /\ Truthy(EnvGet(env, providerPriority[i].key))}
  IN  IF viable = {} THEN NoString
      ELSE providerPriority[CHOOSE i \in viable : \A j \in viable : i <= j].providerId

\* the catch block of POST on the error e: the OpenRouter fallback, else the
\* logged candidate and the normalised error
CatchError(g, e) ==
  IF FallbackEligible(e) /\ "OPENROUTER_API_KEY" \in gwEnv.keys
     /\ g.providerSel # "openrouter"
  THEN [g EXCEPT !.pc = "done",
                 !.resolves = Append(@, "openrouter"),
                 !.tried = Append(@, "openrouter"),
                 !.fallbacks = @ + 1,
                 !.resp = Response(200, NoString, "sse",
                                   StreamHeaders \cup {"Connection", "X-Fallback"})]
  ELSE [g EXCEPT !.pc = "done",
                 !.candidate = IF FallbackEligible(e)
                               THEN LoggedCandidate(g.providerSel, gwEnv) ELSE @,
                 !.resp = Normalize(e, g.providerId)]

\* POST after the rate limiter allowed the request, up to the next await
Dispatch(g) ==
  IF g.mode = "raw" /\ g.providerSel = "openrouter"
  THEN IF ~Truthy(OrElse(g.override, EnvGet(gwEnv, "OPENROUTER_API_KEY")))
       THEN [g EXCEPT !.pc = "done", !.resp = jsonError("invalid_provider_config", 400)]
       ELSE [g EXCEPT !.pc = "done",
                      !.resolves = Append(@, "openrouter"),
                      !.tried = Append(@, "openrouter"),
                      !.resp = Response(200, NoString, "sse",
                                        StreamHeaders \cup {"Connection"})]
  ELSE LET client == getModelClient(g.providerId, g.apiKey, gwEnv)
           g1     == [g EXCEPT !.resolves = Append(@, g.providerId),
                               !.tried = Append(@, g.providerId)]
       IN  IF client.ok THEN [g1 EXCEPT !.pc = "generating"]
           ELSE CatchError(g1, client.error)

\* a request arrives: methodGuard, then await parseJson
GwReceive ==
  \E method \in Methods, body \in Bodies :
    /\ gw.pc \in {"idle", "done"}
    /\ gw' = IF method # "POST"
             THEN [NoRequest EXCEPT !.pc = "done", !.method = method, !.body = body,
                                    !.resp = jsonError("method_not_allowed", 405)]
             ELSE [NoRequest EXCEPT !.pc = "parsing", !.method = method, !.body = body]
    /\ UNCHANGED <<now, rlVars, cbVars, sse, gwEnv, fnVars>>

\* parsed.error.flatten(): the messages of the schema's issues, per field
FlattenDetails == {<<"fieldErrors", "zod messages">>}

\* parseJson settles: an error response, or the rate limiter is awaited
GwParsed ==
  /\ gw.pc = "parsing"
  /\ gw' = IF gw.body = "malformed"
           THEN [gw EXCEPT !.pc = "done", !.resp = jsonError("invalid_json", 400)]
           ELSE IF ~ParseOk(gw.body)
           THEN [gw EXCEPT !.pc = "done",
                           !.resp = jsonErrorDetails("invalid_request", 400,
                                                     FlattenDetails)]
           ELSE [gw EXCEPT !.pc = "ratelimiting"]
  /\ UNCHANGED <<now, rlVars, cbVars, sse, gwEnv, fnVars>>

\* the 429 of the gateway's own limiter:
\* Retry-After = Math.ceil((rl.retryAfterMs ?? windowMs) / 1000)
RateLimitedResponse(rl) ==
  [Response(429, "rate_limited", "json",
            {"Content-Type", "Retry-After", "X-RateLimit-Limit",
             "X-RateLimit-Remaining"})
     EXCEPT !.retryAfter = Ceil(IF rl.retryAfterMs # Undefined THEN rl.retryAfterMs
                                ELSE rlCfg.windowMs, 1000),
            !.details = {<<"retryAfterMs", ToString(rl.retryAfterMs)>>}]

\* POST once rateLimitAsync has resolved with rl: 429, or the request (with
\* the fields of its body) is dispatched
AfterLimiter(g, rl, mode, sel, pid, apiKey, over) ==
  LET g1 == [g EXCEPT !.checked = TRUE, !.rl = rl, !.t = 0, !.store = "none"]
      g2 == [g1 EXCEPT !.mode = mode, !.providerSel = sel, !.providerId = pid,
                       !.apiKey = apiKey, !.override = over]
  IN  IF Limited(rl)
      THEN [g1 EXCEPT !.pc = "done", !.resp = RateLimitedResponse(rl)]
      ELSE Dispatch(g2)

\* POST calls rateLimitAsync: without the Upstash variables memoryRateLimit
\* decides at once and POST goes on; otherwise the request to the store is
\* sent and the call is suspended at await fetch
GwLimiterCall ==
  /\ gw.pc = "ratelimiting"
  /\ \/ /\ ~rlCfg.configured
        /\ \E key \in Keys, mode \in Modes, sel \in ProviderSelections,
              pid \in RequestedProviders, apiKey \in ConfigKeys, over \in OverrideKeys :
             LET out == upstashRateLimit(FALSE, "none", memoryBuckets, redis, key,
                                         rlCfg.max, rlCfg.windowMs, now, now, now)
             IN  /\ memoryBuckets' = out.mb
                 /\ gw' = AfterLimiter(gw, out.res, mode, sel, pid, apiKey, over)
     \/ /\ rlCfg.configured
        /\ memoryBuckets' = memoryBuckets
        /\ gw' = [gw EXCEPT !.pc = "fetching", !.t = now]
  /\ UNCHANGED <<now, rlCfg, redis, rlBegan, rlOrd, stOrd, rlLast, cbVars, sse, gwEnv,
                 fnVars>>

\* the store executes the pipeline of the pending request and answers, or the
\* request fails
GwStoreAnswers ==
  \E key \in Keys, resp \in StoreResponses :
    LET out == upstashRateLimit(TRUE, resp, memoryBuckets, redis, key,
                                rlCfg.max, rlCfg.windowMs, gw.t, now, now)
    IN
    /\ gw.pc = "fetching"
    /\ LET rkey == RedisKey(key, gw.t \div rlCfg.windowMs)
       IN  rkey \in DOMAIN redis => redis[rkey].count < MaxCount
    /\ redis' = out.rd
    /\ gw' = [gw EXCEPT !.pc = "answered", !.store = resp,
                        !.rl = IF resp \in StoreThrows THEN @ ELSE out.res]
    /\ UNCHANGED <<now, rlCfg, memoryBuckets, rlBegan, rlOrd, stOrd, rlLast, cbVars,
                   sse, gwEnv, fnVars>>

\* rateLimitAsync settles (on a failed request through memoryRateLimit at the
\* current time): 429, or the request is dispatched
GwRateLimited ==
  \E key \in Keys, mode \in Modes, sel \in ProviderSelections,
     pid \in RequestedProviders, apiKey \in ConfigKeys, over \in OverrideKeys :
    LET out == upstashRateLimit(TRUE, gw.store, memoryBuckets, redis, key,
                                rlCfg.max, rlCfg.windowMs, gw.t, now, now)
        rl  == IF gw.store \in StoreThrows THEN out.res ELSE gw.rl
    IN
    /\ gw.pc = "answered"
    /\ memoryBuckets' = IF gw.store \in StoreThrows THEN out.mb ELSE memoryBuckets
    /\ gw' = AfterLimiter(gw, rl, mode, sel, pid, apiKey, over)
    /\ UNCHANGED <<now, rlCfg, redis, rlBegan, rlOrd, stOrd, rlLast, cbVars, sse,
                   gwEnv, fnVars>>

\* the awaited generation call settles
GwSettled ==
  /\ gw.pc = "generating"
  /\ \/ gw' = [gw EXCEPT !.pc = "done",
                         !.resp = Response(200, NoString, "text",
                                     {"Content-Type", "Cache-Control", "X-Request-Id",
                                      "X-Provider", "X-Model"})]
     \/ \E e \in GenerationErrors : gw' = CatchError(gw, e)
  /\ UNCHANGED <<now, rlVars, cbVars, sse, gwEnv, fnVars>>

GwNext ==
  \/ GwReceive
  \/ GwParsed
  \/ GwLimiterCall
  \/ GwStoreAnswers
  \/ GwRateLimited
  \/ GwSettled
  \/ Tick

\* ------------------------------------------------------------------------
\* Specifications
\* ------------------------------------------------------------------------
\* the rate limiter under arbitrary checks, sweeps and passing time; the
\* module starts with an empty map, the configuration is the environment's
InitRL ==
  /\ now = 0
  /\ rlCfg \in RateLimitConfigs
  /\ memoryBuckets = EmptyMap
  /\ redis = EmptyMap
  /\ rlBegan = EmptyMap
  /\ rlOrd = EmptyMap
  /\ stOrd = EmptyMap
  /\ rlLast = NoCall
  /\ cbCfg = [failureThreshold |-> 1, recoveryTimeout |-> 1]
  /\ cbState = "CLOSED"
  /\ failures = 0
  /\ lastFailureTime = 0
  /\ calls = [p \in CallIds |-> IdleCall]
  /\ cbStreak = 0
  /\ cbLast = NoStep
  /\ sse = NoSession
  /\ gwEnv = [keys |-> {}, vertex |-> [parses |-> TRUE, fields |-> {}, blank |-> {}]]
  /\ gw = NoRequest
  /\ rs = NoResolve
  /\ nz = NoNormalize
  /\ ck = NoKeyCall
  /\ fb = NoTraversal
  /\ rb = NoRetry
  /\ rq = [p \in Checkers |-> IdleCheck]

SpecRL == InitRL /\ [][RlNext]_vars

\* the limiter under the scheduling the code provides: time passes; no timer
\* or other caller runs cleanupExpired, and no request is bound to arrive
SpecRLLive == InitRL /\ [][RlNext]_vars /\ WF_vars(Tick)

\* one circuit breaker under concurrent calls:
\* createCircuitBreaker(operation, failureThreshold, recoveryTimeout)
InitCB ==
  /\ now = 0
  /\ rlCfg = [max |-> 1, windowMs |-> 1, configured |-> FALSE]
  /\ memoryBuckets = EmptyMap
  /\ redis = EmptyMap
  /\ rlBegan = EmptyMap
  /\ rlOrd = EmptyMap
  /\ stOrd = EmptyMap
  /\ rlLast = NoCall
  /\ cbCfg \in BreakerConfigs
  /\ cbState = "CLOSED"
  /\ failures = 0
  /\ lastFailureTime = 0
  /\ calls = [p \in CallIds |-> IdleCall]
  /\ cbStreak = 0
  /\ cbLast = NoStep
  /\ sse = NoSession
  /\ gwEnv = [keys |-> {}, vertex |-> [parses |-> TRUE, fields |-> {}, blank |-> {}]]
  /\ gw = NoRequest
  /\ rs = NoResolve
  /\ nz = NoNormalize
  /\ ck = NoKeyCall
  /\ fb = NoTraversal
  /\ rb = NoRetry
  /\ rq = [p \in Checkers |-> IdleCheck]

SpecCB == InitCB /\ [][CbNext]_vars

\* one raw-mode stream session
InitSSE ==
  /\ now = 0
  /\ rlCfg = [max |-> 1, windowMs |-> 1, configured |-> FALSE]
  /\ memoryBuckets = EmptyMap
  /\ redis = EmptyMap
  /\ rlBegan = EmptyMap
  /\ rlOrd = EmptyMap
  /\ stOrd = EmptyMap
  /\ rlLast = NoCall
  /\ cbCfg = [failureThreshold |-> 1, recoveryTimeout |-> 1]
  /\ cbState = "CLOSED"
  /\ failures = 0
  /\ lastFailureTime = 0
  /\ calls = [p \in CallIds |-> IdleCall]
  /\ cbStreak = 0
  /\ cbLast = NoStep
  /\ sse = NoSession
  /\ gwEnv = [keys |-> {}, vertex |-> [parses |-> TRUE, fields |-> {}, blank |-> {}]]
  /\ gw = NoRequest
  /\ rs = NoResolve
  /\ nz = NoNormalize
  /\ ck = NoKeyCall
  /\ fb = NoTraversal
  /\ rb = NoRetry
  /\ rq = [p \in Checkers |-> IdleCheck]

SpecSSE == InitSSE /\ [][SseNext]_vars

\* the gateway serving requests one after the other, its limiter configured
\* by the deployment; the first request arrives two ticks before the end of
\* the clock's range, at a time that is not the start of a window
InitGW ==
  /\ now = MaxTime - 2
  /\ rlCfg \in [max : {1}, windowMs : {MaxWindow}, configured : BOOLEAN]
  /\ memoryBuckets = EmptyMap
  /\ redis = EmptyMap
  /\ rlBegan = EmptyMap
  /\ rlOrd = EmptyMap
  /\ stOrd = EmptyMap
  /\ rlLast = NoCall
  /\ cbCfg = [failureThreshold |-> 1, recoveryTimeout |-> 1]
  /\ cbState = "CLOSED"
  /\ failures = 0
  /\ lastFailureTime = 0
  /\ calls = [p \in CallIds |-> IdleCall]
  /\ cbStreak = 0
  /\ cbLast = NoStep
  /\ sse = NoSession
  /\ gwEnv \in GatewayEnvs
  /\ gw = NoRequest
  /\ rs = NoResolve
  /\ nz = NoNormalize
  /\ ck = NoKeyCall
  /\ fb = NoTraversal
  /\ rb = NoRetry
  /\ rq = [p \in Checkers |-> IdleCheck]

SpecGW == InitGW /\ [][GwNext]_vars

\* getModelClient on every provider id, key and environment
InitRS ==
  /\ now = 0
  /\ rlCfg = [max |-> 1, windowMs |-> 1, configured |-> FALSE]
  /\ memoryBuckets = EmptyMap
  /\ redis = EmptyMap
  /\ rlBegan = EmptyMap
  /\ rlOrd = EmptyMap
  /\ stOrd = EmptyMap
  /\ rlLast = NoCall
  /\ cbCfg = [failureThreshold |-> 1, recoveryTimeout |-> 1]
  /\ cbState = "CLOSED"
  /\ failures = 0
  /\ lastFailureTime = 0
  /\ calls = [p \in CallIds |-> IdleCall]
  /\ cbStreak = 0
  /\ cbLast = NoStep
  /\ sse = NoSession
  /\ gwEnv = [keys |-> {}, vertex |-> [parses |-> TRUE, fields |-> {}, blank |-> {}]]
  /\ gw = NoRequest
  /\ rs \in ResolverCalls
  /\ nz = NoNormalize
  /\ ck = NoKeyCall
  /\ fb = NoTraversal
  /\ rb = NoRetry
  /\ rq = [p \in Checkers |-> IdleCheck]

SpecRS == InitRS /\ [][RsNext]_vars

\* the error normalizer on every error
InitNZ ==
  /\ now = 0
  /\ rlCfg = [max |-> 1, windowMs |-> 1, configured |-> FALSE]
  /\ memoryBuckets = EmptyMap
  /\ redis = EmptyMap
  /\ rlBegan = EmptyMap
  /\ rlOrd = EmptyMap
  /\ stOrd = EmptyMap
  /\ rlLast = NoCall
  /\ cbCfg = [failureThreshold |-> 1, recoveryTimeout |-> 1]
  /\ cbState = "CLOSED"
  /\ failures = 0
  /\ lastFailureTime = 0
  /\ calls = [p \in CallIds |-> IdleCall]
  /\ cbStreak = 0
  /\ cbLast = NoStep
  /\ sse = NoSession
  /\ gwEnv = [keys |-> {}, vertex |-> [parses |-> TRUE, fields |-> {}, blank |-> {}]]
  /\ gw = NoRequest
  /\ rs = NoResolve
  /\ nz \in NormalizerCalls
  /\ ck = NoKeyCall
  /\ fb = NoTraversal
  /\ rb = NoRetry
  /\ rq = [p \in Checkers |-> IdleCheck]

SpecNZ == InitNZ /\ [][NzNext]_vars

\* getClientKey on every combination of identities and headers
InitCK ==
  /\ now = 0
  /\ rlCfg = [max |-> 1, windowMs |-> 1, configured |-> FALSE]
  /\ memoryBuckets = EmptyMap
  /\ redis = EmptyMap
  /\ rlBegan = EmptyMap
  /\ rlOrd = EmptyMap
  /\ stOrd = EmptyMap
  /\ rlLast = NoCall
  /\ cbCfg = [failureThreshold |-> 1, recoveryTimeout |-> 1]
  /\ cbState = "CLOSED"
  /\ failures = 0
  /\ lastFailureTime = 0
  /\ calls = [p \in CallIds |-> IdleCall]
  /\ cbStreak = 0
  /\ cbLast = NoStep
  /\ sse = NoSession
  /\ gwEnv = [keys |-> {}, vertex |-> [parses |-> TRUE, fields |-> {}, blank |-> {}]]
  /\ gw = NoRequest
  /\ rs = NoResolve
  /\ nz = NoNormalize
  /\ ck \in KeyCalls
  /\ fb = NoTraversal
  /\ rb = NoRetry
  /\ rq = [p \in Checkers |-> IdleCheck]

SpecCK == InitCK /\ [][CkNext]_vars

\* a caller following the fallbacks of a provider or of a template
InitFB ==
  /\ now = 0
  /\ rlCfg = [max |-> 1, windowMs |-> 1, configured |-> FALSE]
  /\ memoryBuckets = EmptyMap
  /\ redis = EmptyMap
  /\ rlBegan = EmptyMap
  /\ rlOrd = EmptyMap
  /\ stOrd = EmptyMap
  /\ rlLast = NoCall
  /\ cbCfg = [failureThreshold |-> 1, recoveryTimeout |-> 1]
  /\ cbState = "CLOSED"
  /\ failures = 0
  /\ lastFailureTime = 0
  /\ calls = [p \in CallIds |-> IdleCall]
  /\ cbStreak = 0
  /\ cbLast = NoStep
  /\ sse = NoSession
  /\ gwEnv = [keys |-> {}, vertex |-> [parses |-> TRUE, fields |-> {}, blank |-> {}]]
  /\ gw = NoRequest
  /\ rs = NoResolve
  /\ nz = NoNormalize
  /\ ck = NoKeyCall
  /\ fb \in Traversals
  /\ rb = NoRetry
  /\ rq = [p \in Checkers |-> IdleCheck]

SpecFB == InitFB /\ [][FbNext]_vars

\* one call of retryWithBackoff
InitRB ==
  /\ now = 0
  /\ rlCfg = [max |-> 1, windowMs |-> 1, configured |-> FALSE]
  /\ memoryBuckets = EmptyMap
  /\ redis = EmptyMap
  /\ rlBegan = EmptyMap
  /\ rlOrd = EmptyMap
  /\ stOrd = EmptyMap
  /\ rlLast = NoCall
  /\ cbCfg = [failureThreshold |-> 1, recoveryTimeout |-> 1]
  /\ cbState = "CLOSED"
  /\ failures = 0
  /\ lastFailureTime = 0
  /\ calls = [p \in CallIds |-> IdleCall]
  /\ cbStreak = 0
  /\ cbLast = NoStep
  /\ sse = NoSession
  /\ gwEnv = [keys |-> {}, vertex |-> [parses |-> TRUE, fields |-> {}, blank |-> {}]]
  /\ gw = NoRequest
  /\ rs = NoResolve
  /\ nz = NoNormalize
  /\ ck = NoKeyCall
  /\ fb = NoTraversal
  /\ rb \in RetryCalls
  /\ rq = [p \in Checkers |-> IdleCheck]

SpecRB == InitRB /\ [][RbNext]_vars

\* a burst of concurrent rateLimitAsync calls for one key at one instant
InitRQ ==
  /\ now = 0
  /\ rlCfg \in RateLimitConfigs
  /\ memoryBuckets = EmptyMap
  /\ redis = EmptyMap
  /\ rlBegan = EmptyMap
  /\ rlOrd = EmptyMap
  /\ stOrd = EmptyMap
  /\ rlLast = NoCall
  /\ cbCfg = [failureThreshold |-> 1, recoveryTimeout |-> 1]
  /\ cbState = "CLOSED"
  /\ failures = 0
  /\ lastFailureTime = 0
  /\ calls = [p \in CallIds |-> IdleCall]
  /\ cbStreak = 0
  /\ cbLast = NoStep
  /\ sse = NoSession
  /\ gwEnv = [keys |-> {}, vertex |-> [parses |-> TRUE, fields |-> {}, blank |-> {}]]
  /\ gw = NoRequest
  /\ rs = NoResolve
  /\ nz = NoNormalize
  /\ ck = NoKeyCall
  /\ fb = NoTraversal
  /\ rb = NoRetry
  /\ rq = [p \in Checkers |-> IdleCheck]

SpecRQ == InitRQ /\ [][RqNext]_vars

\* ------------------------------------------------------------------------
\* Properties of the rate limiter
\* ------------------------------------------------------------------------
\* the last check was decided by a counter (in-process or store)
Counted == rlLast.path \in {"memory", "store"}

\* C1: the first max checks of a window are allowed with strictly decreasing
\* remaining, and check number max+1 of the window is refused with
\* retryAfterMs > 0 (for every key, max and windowMs)
C1_FirstMaxAllowed ==
  Counted =>
    /\ rlLast.ord <= rlCfg.max =>
          /\ rlLast.res.allowed
          /\ rlLast.ord > 1 => rlLast.res.remaining < rlLast.prevRem
    /\ rlLast.ord = rlCfg.max + 1 =>
          /\ ~rlLast.res.allowed
          /\ rlLast.res.retryAfterMs > 0

\* C2: no check returns allowed=true while leaving the key's stored count
\* above max
C2_CountWithinMax ==
  (Counted /\ rlLast.res.allowed) => rlLast.countAfter <= rlCfg.max

\* C3: once windowMs has elapsed since the key's in-process window began, the
\* next in-process check is the first check of a fresh window: allowed,
\* remaining = max-1, count 1, and a new window of length windowMs
C3_FreshWindowAfterExpiry ==
  (rlLast.path = "memory" /\ rlLast.elapsed) =>
    /\ rlLast.res.allowed
    /\ rlLast.res.remaining = rlCfg.max - 1
    /\ rlLast.countAfter = 1
    /\ rlLast.resetAfter = rlLast.t + rlCfg.windowMs

\* C3 witness: a key that was refused in its previous window is checked after
\* the window has elapsed
C3_Witness ==
  /\ rlLast.path = "memory" /\ rlLast.elapsed
  /\ rlCfg.max >= 1 /\ rlLast.preOrd > rlCfg.max
  /\ rlLast.res.allowed

\* the store outcomes under which the limiter has no usable store answer
StoreFailures == {"unconfigured", "unreachable", "not_ok", "bad_json", "wrong_shape"}

\* C4: when the store is unconfigured, unreachable, answers non-OK or with a
\* malformed body, rateLimitAsync resolves with the in-process limiter's
\* decision
C4_DegradesToMemory ==
  (rlLast.api = "async" /\ rlLast.resp \in StoreFailures) => rlLast.res = rlLast.mem

\* ------------------------------------------------------------------------
\* Properties of the circuit breaker
\* ------------------------------------------------------------------------
InFlight(p) == calls[p].pc = "inflight"

\* C5: after failureThreshold consecutive failed calls the breaker is OPEN and
\* a call made before recoveryTimeout has elapsed since lastFailureTime is
\* refused with the 'Circuit breaker is OPEN' error without invoking the
\* operation
C5_OpenAfterThreshold ==
  (/\ cbLast.ev \in {"invoke", "reject"}
   /\ cbLast.streak >= cbCfg.failureThreshold
   /\ cbLast.age < cbCfg.recoveryTimeout) => cbLast.ev = "reject"

\* C6: the trial call made in HALF_OPEN decides the state: success gives CLOSED
\* with failures = 0, failure gives OPEN with lastFailureTime refreshed
C6_TrialDecides ==
  cbLast.trial =>
    /\ cbLast.ev = "success" => (cbState = "CLOSED" /\ failures = 0)
    /\ cbLast.ev = "failure" => (cbState = "OPEN" /\ lastFailureTime = cbLast.callNow)

\* C7: at most one trial invocation of the operation is in flight
C7_OneTrial ==
  Cardinality({p \in CallIds : InFlight(p) /\ calls[p].trial}) <= 1

\* ------------------------------------------------------------------------
\* Properties of the raw-mode stream
\* ------------------------------------------------------------------------
IsBeat(f) == f.kind = "heartbeat"
NotBeat(f) == f.kind # "heartbeat"
IsToken(f) == f.kind = "token"

\* the payloads of a sequence of frames
RECURSIVE Data(_)
Data(fs) == IF fs = << >> THEN << >> ELSE <<Head(fs).data>> \o Data(Tail(fs))

DoneAt(i) == sse.frames[i].kind = "done"

\* C8: the stream emits the provider's tokens in order, then exactly one
\* [done] frame; heartbeats only before [done]; no frame after [done]
C8_FramesThenDone ==
  /\ \A i \in 1..Len(sse.frames) : DoneAt(i) => i = Len(sse.frames)
  /\ (sse.state = "readable" /\ ~sse.closing) =>
       Data(SelectSeq(sse.frames, NotBeat)) = sse.yielded
  /\ (sse.state = "closed" \/ sse.closing) =>
       /\ Data(SelectSeq(sse.frames, NotBeat)) = Append(sse.yielded, "[done]")
       /\ Data(SelectSeq(sse.frames, IsToken)) = sse.yielded
       /\ Len(sse.frames) >= 1 /\ DoneAt(Len(sse.frames))

\* C8 witness: a completed stream of several tokens with a heartbeat between
\* them
C8_Witness ==
  /\ sse.state = "closed"
  /\ Len(sse.yielded) >= 2
  /\ \E i \in 1..Len(sse.frames) : IsBeat(sse.frames[i])
  /\ DoneAt(Len(sse.frames))

\* ------------------------------------------------------------------------
\* Properties of the request orchestrator
\* ------------------------------------------------------------------------
\* C9: generation is attempted on at most two providers per request, and the
\* fallback provider is never the provider that just failed
C9_AtMostOneFallback ==
  /\ Len(gw.tried) <= 2
  /\ gw.fallbacks <= 1
  /\ Len(gw.tried) = 2 => gw.tried[2] # gw.tried[1]
  /\ \A i \in 1..Len(aiProviders) :
       getFallbackProvider(aiProviders[i]) # aiProviders[i]

\* C9 witness: the primary provider failed and the fallback provider answered
C9_Witness ==
  /\ gw.pc = "done"
  /\ Len(gw.tried) = 2
  /\ "X-Fallback" \in gw.resp.headers

\* C10: a request that fails validation, or that the rate limiter refuses, is
\* answered with its error without a client being resolved, a generation call
\* or a fallback; it is terminal
C10_RejectedBeforeProviders ==
  ((gw.pc # "idle" /\ gw.body # "valid") \/ (gw.checked /\ ~gw.rl.allowed)) =>
    /\ gw.resolves = << >>
    /\ gw.tried = << >>
    /\ gw.fallbacks = 0
    /\ gw.pc \in {"parsing", "done"}
    /\ gw.pc = "done" => (gw.resp.kind = "json" /\ gw.resp.status \in {400, 405, 429})

\* C10 witness: a valid request refused by the rate limiter with 429
C10_Witness ==
  /\ gw.pc = "done" /\ gw.body = "valid"
  /\ gw.checked /\ ~gw.rl.allowed
  /\ gw.resp.status = 429

\* C10 witness for the validation failure
C10_WitnessInvalid ==
  gw.pc = "done" /\ gw.body = "invalid" /\ gw.resp.code = "invalid_request"

\* the request passed validation and the rate limiter and has been answered
Served == gw.pc = "done" /\ gw.checked /\ gw.rl.allowed

\* C11: every rate-limited response (status 429 / code rate_limited), from the
\* gateway's own limiter or reported by the upstream provider, carries a
\* Retry-After header; for the gateway's limiter its value is the positive
\* whole number ceil(retryAfterMs / 1000)
C11_RetryAfterOnRateLimited ==
  (gw.pc = "done" /\ (gw.resp.status = 429 \/ gw.resp.code = "rate_limited")) =>
     /\ "Retry-After" \in gw.resp.headers
     /\ (gw.checked /\ ~gw.rl.allowed) =>
           /\ gw.resp.retryAfter >= 1
           /\ gw.resp.retryAfter = Ceil(gw.rl.retryAfterMs, 1000)

\* the request names openai and neither the request nor the environment has a
\* key for it
NoOpenAiKey ==
  /\ gw.providerId = "openai"
  /\ ~Truthy(gw.apiKey) /\ ~Truthy(gw.override)
  /\ "OPENAI_API_KEY" \notin gwEnv.keys

\* the request takes the raw OpenRouter path, which ignores model.providerId
RawOpenRouter == gw.mode = "raw" /\ gw.providerSel = "openrouter"

\* C12 (as stated): a POST for openai with no apiKey and no OPENAI_API_KEY is
\* answered 400 provider_config_error whatever the other environment
\* variables are
C12_MissingOpenAiKey ==
  (Served /\ NoOpenAiKey) =>
     (gw.resp.status = 400 /\ gw.resp.code = "provider_config_error")

\* C12 (amended): on the structured path such a POST is answered 400
\* provider_config_error naming openai, unless OPENROUTER_API_KEY is set and
\* the provider selection is not openrouter, in which case it is answered by
\* the OpenRouter fallback stream marked X-Fallback
C12_MissingOpenAiKeyUnlessFallback ==
  (Served /\ NoOpenAiKey /\ ~RawOpenRouter) =>
     IF "OPENROUTER_API_KEY" \in gwEnv.keys /\ gw.providerSel # "openrouter"
     THEN /\ gw.resp.status = 200 /\ gw.resp.kind = "sse"
          /\ "X-Fallback" \in gw.resp.headers
          /\ gw.tried = <<"openai", "openrouter">>
     ELSE /\ gw.resp.status = 400 /\ gw.resp.code = "provider_config_error"
          /\ <<"provider", "openai">> \in gw.resp.details
          /\ gw.tried = <<"openai">>

\* C12 witness: the key of another provider is set, openai's is not, and the
\* request is answered 400 provider_config_error
C12_Witness ==
  /\ Served /\ NoOpenAiKey /\ ~RawOpenRouter
  /\ "GROQ_API_KEY" \in gwEnv.keys
  /\ gw.resp.status = 400 /\ gw.resp.code = "provider_config_error"

\* the values that must not reach a client: credentials and stacks
Secrets ==
  {"sk-config", "sk-other", "sk-override"}
  \cup {"env:" \o KeyVar(p) : p \in KeyProviders}
  \cup {"env:OPENROUTER_API_KEY"}
  \cup Stacks

\* the values held by the fields of a details object
DetailValues(details) == {d[2] : d \in details}

\* the credential values a request can carry in config.apiKey
CredentialValues == {"sk-config", "sk-other"}

\* C17: no error envelope of the gateway has a stack or a credential value in
\* error.details, and two requests that differ only in the credential value
\* or in the failing error's stack receive identical details
C17_NoSecretsInDetails ==
  /\ DetailValues(gw.resp.details) \cap Secrets = {}
  /\ (gw.pc = "generating" /\ Truthy(gw.apiKey)) =>
        \A e \in GenerationErrors, st \in Stacks, k \in CredentialValues :
           CatchError([gw EXCEPT !.apiKey = k], [e EXCEPT !.stack = st]).resp.details
             = CatchError(gw, e).resp.details

\* C17 witness: a request carrying a credential is answered with an error
\* envelope that has details
C17_Witness ==
  /\ gw.pc = "done" /\ gw.resp.kind = "json" /\ gw.resp.status >= 400
  /\ Truthy(gw.apiKey)
  /\ gw.resp.details # {}

\* ------------------------------------------------------------------------
\* Properties of the resolver
\* ------------------------------------------------------------------------
Settled == rs.pc = "settled"

\* C13: for every providerId that requires a key, resolving with no key in
\* config and no matching environment variable fails with a
\* ProviderConfigError whose provider field is that providerId, and no client
\* is constructed; ollama resolves with no key at all
C13_MissingKeyNamesProvider ==
  Settled =>
    /\ (/\ rs.providerId \in KeyProviders
        /\ ~Truthy(rs.apiKey)
        /\ KeyVar(rs.providerId) \notin rs.env.keys) =>
          /\ ~rs.out.ok
          /\ rs.out.error.name = "ProviderConfigError"
          /\ rs.out.error.provider = rs.providerId
          /\ rs.out.client = NoClient
    /\ rs.providerId = "ollama" =>
          /\ rs.out.ok
          /\ rs.out.client.closure = "ollama"

\* C13 witness: groq fails for want of its key although every other
\* provider's key is set
C13_Witness ==
  /\ Settled /\ rs.providerId = "groq" /\ rs.apiKey = NoString
  /\ rs.env.keys = KeyVars \ {"GROQ_API_KEY"}
  /\ ~rs.out.ok /\ rs.out.error.provider = "groq"

\* C14: getModelClient returns a client built by the closure registered for
\* the providerId, or throws a named error; for a providerId that is not a
\* known provider it throws 'Unsupported provider: <id>', never a client
C14_ClosureOrNamedError ==
  Settled =>
    /\ rs.out.ok =>
          /\ rs.providerId \in KnownProviders
          /\ rs.out.client.closure = rs.providerId
          /\ rs.providerId \in KeyProviders => Truthy(rs.out.client.apiKey)
    /\ ~rs.out.ok =>
          /\ rs.out.client = NoClient
          /\ rs.out.error.name \in {"Error", "ProviderConfigError"}
    /\ rs.providerId \notin KnownProviders =>
          /\ ~rs.out.ok
          /\ rs.out.error.message = "Unsupported provider: " \o rs.providerId

\* a, b separated by ', ' when both are there
Sep(a, b) == IF a = "" THEN b ELSE IF b = "" THEN a ELSE a \o ", " \o b

\* the required fields for which the blob has no (non-empty) value
Absent(blob) == VertexFields \ blob.fields

Named(k, ks) == IF k \in ks THEN k ELSE ""

\* C15: for vertex, a blob that does not parse fails with the invalid-JSON
\* ProviderConfigError; a blob that parses fails listing exactly the required
\* fields that are absent (a field with an empty value counts as absent);
\* a blob with all three resolves
C15_VertexCredentials ==
  (Settled /\ rs.providerId = "vertex") =>
    LET blob == rs.env.vertex
        err  == rs.out.error
    IN  /\ ~blob.parses =>
              /\ ~rs.out.ok /\ err.name = "ProviderConfigError"
              /\ err.provider = "vertex"
              /\ err.message = "Invalid JSON in GOOGLE_VERTEX_CREDENTIALS"
        /\ (blob.parses /\ Absent(blob) # {}) =>
              /\ ~rs.out.ok /\ err.name = "ProviderConfigError"
              /\ err.provider = "vertex"
              /\ err.message =
                   "Missing required Vertex credential fields: "
                     \o Sep(Sep(Named("client_email", Absent(blob)),
                                Named("private_key", Absent(blob))),
                            Named("project_id", Absent(blob)))
        /\ (blob.parses /\ Absent(blob) = {}) =>
              /\ rs.out.ok /\ rs.out.client.closure = "vertex"

\* C15 witness: a blob with only project_id missing is refused, listing
\* project_id alone
C15_Witness ==
  /\ Settled /\ rs.providerId = "vertex" /\ rs.env.vertex.parses
  /\ rs.env.vertex.fields = {"client_email", "private_key"}
  /\ rs.env.vertex.blank = {}
  /\ rs.out.error.message = "Missing required Vertex credential fields: project_id"

\* ------------------------------------------------------------------------
\* Properties of the error normalizer
\* ------------------------------------------------------------------------
\* C16: the normalizer classifies by the first matching rule:
\* ProviderConfigError -> provider_config_error (400); Zod error ->
\* schema_validation_error (400); SyntaxError or a 'credentials' message ->
\* invalid_provider_config (400); 401/403 -> unauthorized; 429 ->
\* rate_limited; 503/529 -> provider_unavailable; anything else ->
\* generation_failed with the original status if numeric, else 500
C16_FirstMatchingRule ==
  nz.pc = "answered" =>
    LET e == nz.e
        r == nz.out
    IN  IF e.name = "ProviderConfigError"
        THEN r.code = "provider_config_error" /\ r.status = 400
        ELSE IF e.name = "ZodError" \/ e.cause = "ZodError"
        THEN r.code = "schema_validation_error" /\ r.status = 400
        ELSE IF e.name = "SyntaxError" \/ e.cred
        THEN r.code = "invalid_provider_config" /\ r.status = 400
        ELSE IF e.status \in {401, 403} THEN r.code = "unauthorized"
        ELSE IF e.status = 429 THEN r.code = "rate_limited"
        ELSE IF e.status \in {503, 529} THEN r.code = "provider_unavailable"
        ELSE /\ r.code = "generation_failed"
             /\ r.status = IF e.status >= 0 THEN e.status ELSE 500

\* ------------------------------------------------------------------------
\* Properties of the client key
\* ------------------------------------------------------------------------
\* the first item of the forwarded-for header of the call, trimmed
FirstIp == IF ck.xff = << >> THEN "" ELSE Trim(ck.xff[1])

\* which identity a call's key is derived from
KeyKind(c) ==
  IF Truthy(c.userID) THEN "uid" ELSE IF Truthy(c.teamID) THEN "tid" ELSE "ip"

\* calls whose keys come from identities of different kinds get different keys
Namespaced ==
  \A c \in KeyCalls :
     KeyKind(c) # KeyKind(ck) =>
        getClientKey(c.userID, c.teamID, c.xff, c.realIp) # ck.key

\* C18 (as stated): the key is the userID when present, else the teamID, else
\* the first IP of x-forwarded-for, else the "unknown" sentinel; kinds are
\* namespaced uid:/tid:/ip:
C18_KeyPriority ==
  ck.pc = "returned" =>
    /\ ck.key = IF Truthy(ck.userID) THEN "uid:" \o ck.userID
                ELSE IF Truthy(ck.teamID) THEN "tid:" \o ck.teamID
                ELSE IF FirstIp # "" THEN "ip:" \o FirstIp
                ELSE "ip:unknown"
    /\ Namespaced

\* C18 (amended): ..., else the first IP of x-forwarded-for, else the
\* x-real-ip header when it is non-empty, else the "unknown" sentinel
C18_KeyPriorityWithRealIp ==
  ck.pc = "returned" =>
    /\ ck.key = IF Truthy(ck.userID) THEN "uid:" \o ck.userID
                ELSE IF Truthy(ck.teamID) THEN "tid:" \o ck.teamID
                ELSE IF FirstIp # "" THEN "ip:" \o FirstIp
                ELSE IF Truthy(ck.realIp) THEN "ip:" \o ck.realIp
                ELSE "ip:unknown"
    /\ Namespaced

\* C18 witness: a call with a user, a team and an IP of the same text gets the
\* user's key
C18_Witness ==
  /\ ck.pc = "returned"
  /\ ck.userID = "x" /\ ck.teamID = "x" /\ ck.xff = <<" x ", "x">>
  /\ ck.key = "uid:x"

\* ------------------------------------------------------------------------
\* Properties of the fallback chain
\* ------------------------------------------------------------------------
\* the first provider after cur in the priority order whose key is set
NextWithCredentials(cur, env) ==
  LET i     == IndexOf(aiProviders, cur)
      cands == {j \in (i + 1)..Len(aiProviders) : KeyVar(aiProviders[j]) \in env.keys}
  IN  IF i = 0 \/ cands = {} THEN NoString
      ELSE aiProviders[CHOOSE j \in cands : \A k \in cands : j <= k]

\* C19: getFallbackProvider(current) is the next provider after current in the
\* priority order whose credentials are present, never current itself; it is
\* non-null for every provider of the chain except the last, and null when no
\* alternate exists
C19_NextConfiguredProvider ==
  (fb.kind = "provider" /\ fb.prev # NoString) =>
    LET i == IndexOf(aiProviders, fb.prev)
    IN  /\ fb.cur = NextWithCredentials(fb.prev, fb.env)
        /\ fb.cur # fb.prev
        /\ i \in 1..(Len(aiProviders) - 1) => fb.cur # NoString
        /\ i \in {0, Len(aiProviders)} => fb.cur = NoString

\* C20: following fallbacks from any provider or template never revisits an
\* element already tried, so the traversal ends
C20_NoRevisit ==
  \A i, j \in 1..Len(fb.visited) : i # j => fb.visited[i] # fb.visited[j]

\* ------------------------------------------------------------------------
\* Properties of cancellation, timeout and the heartbeat of the raw stream
\* ------------------------------------------------------------------------
\* C22: cancelling a raw-mode stream (consumer cancel or inbound request
\* abort) aborts the provider's sendMessageStream call: in no state has
\* controller.abort() been called while the provider call is still running
C22_CancelAbortsProvider ==
  (sse.state = "cancelled" \/ sse.aborted) => sse.provider # "running"

\* the stream has ended: closed, errored or cancelled
Terminal(s) == s.state \in {"closed", "errored", "cancelled"}

\* C23: in every terminal state of a raw-mode session (completion, error
\* during token production, client cancel) the heartbeat interval has been
\* cleared and no heartbeat fires on the ended stream; an error of the
\* provider surfaces as the stream's error and adds no frame
C23_HeartbeatClearedAtEnd ==
  /\ Terminal(sse) => ~sse.heartbeat
  /\ ~sse.threw
  /\ sse.provider = "threw" =>
       /\ sse.state \in {"errored", "cancelled"}
       /\ Data(SelectSeq(sse.frames, NotBeat)) = sse.yielded

\* C24: when the request's deadline (maxDuration) or its inbound abort
\* signal fires during streaming, the provider call is stopped and the
\* session is terminal
C24_BoundByTimeoutAndAbort ==
  (sse.overdue \/ sse.signal) =>
     /\ sse.pc = "finished"
     /\ sse.provider # "running"
     /\ Terminal(sse)

\* ------------------------------------------------------------------------
\* Properties of the structured-mode fallback
\* ------------------------------------------------------------------------
\* the first resolution of the request fails with a configuration error,
\* which is fallback-eligible
ConfigFailure ==
  LET client == getModelClient(gw.providerId, gw.apiKey, gwEnv)
  IN  ~client.ok /\ FallbackEligible(client.error)

\* a provider of the priority list other than the selected one has its key
PriorityAlternate == LoggedCandidate(gw.providerSel, gwEnv) # NoString

\* C25: when a structured (text/ast) request fails with a fallback-eligible
\* error and a provider of the priority list has credentials, the gateway
\* resolves and attempts generation once more with that alternate before
\* responding, and a response served that way carries X-Fallback
C25_StructuredFallbackAttempted ==
  (Served /\ gw.mode # "raw" /\ ConfigFailure /\ PriorityAlternate) =>
     /\ Len(gw.tried) = 2 /\ Len(gw.resolves) = 2
     /\ gw.tried[2] # gw.tried[1]
     /\ (gw.resp.status = 200 => "X-Fallback" \in gw.resp.headers)

\* ------------------------------------------------------------------------
\* Properties of the effective API key
\* ------------------------------------------------------------------------
\* the resolution of a key-taking provider settled as the effective key eff
\* demands: a client holding eff when eff is non-empty, a ProviderConfigError
\* otherwise
ResolvedWith(eff) ==
  IF eff # NoString /\ eff # ""
  THEN rs.out.ok /\ rs.out.client.apiKey = eff
  ELSE ~rs.out.ok /\ rs.out.error.name = "ProviderConfigError"

\* C27 (as stated): for every provider that takes an API key the effective
\* key is config.apiKey ?? env[PROVIDER_API_KEY], the request's key whenever
\* one is supplied, an empty string included, and resolution succeeds only
\* when that key is non-empty
C27_EffectiveKeyNullish ==
  (Settled /\ rs.providerId \in KeyProviders) =>
     ResolvedWith(IF rs.apiKey # NoString THEN rs.apiKey
                  ELSE IF KeyVar(rs.providerId) \in rs.env.keys
                       THEN "env:" \o KeyVar(rs.providerId) ELSE NoString)

\* C27 (amended): the effective key is config.apiKey || env[PROVIDER_API_KEY],
\* the request's key whenever a non-empty one is supplied, otherwise (absent
\* or empty) the provider's environment variable, and resolution succeeds
\* only when that key is non-empty
C27_EffectiveKeyOrElse ==
  (Settled /\ rs.providerId \in KeyProviders) =>
     ResolvedWith(IF rs.apiKey # NoString /\ rs.apiKey # "" THEN rs.apiKey
                  ELSE IF KeyVar(rs.providerId) \in rs.env.keys
                       THEN "env:" \o KeyVar(rs.providerId) ELSE NoString)

\* C27 witness: an empty config.apiKey with the provider's variable set
\* resolves to a client holding the variable's value
C27_Witness ==
  /\ Settled /\ rs.providerId = "mistral" /\ rs.apiKey = ""
  /\ "MISTRAL_API_KEY" \in rs.env.keys
  /\ rs.out.ok /\ rs.out.client.apiKey = "env:MISTRAL_API_KEY"

\* ------------------------------------------------------------------------
\* Properties of concurrent checks
\* ------------------------------------------------------------------------
\* the calls of the burst that have returned allowed = true
Admitted == {p \in Checkers : rq[p].pc = "done" /\ rq[p].res.allowed}

\* C21: of several concurrent checks for one client key in one window, no
\* two admitted checks decided on the same count, each admitted check
\* decided on a count within max, and at most max checks are admitted
C21_AtomicCheckThenIncrement ==
  /\ \A p, q \in Admitted : p # q => rq[p].seen # rq[q].seen
  /\ \A p \in Admitted : rq[p].seen <= rlCfg.max
  /\ Cardinality(Admitted) <= rlCfg.max

\* C29: for a fixed key, max and windowMs the number of rateLimitAsync calls
\* admitted within one window never exceeds max, also when the store fails
\* for some of the calls and answers the others (stated for max >= 1 and
\* well-formed answers of the store, where the limit of each counter holds)
C29_AdmittedWithinMax ==
  (rlCfg.max >= 1 /\ \A p \in Checkers : rq[p].resp # "wrong_shape") =>
     Cardinality({p \in Checkers : rq[p].pc = "done" /\ rq[p].res.allowed})
        <= rlCfg.max

\* ------------------------------------------------------------------------
\* Properties of retryWithBackoff
\* ------------------------------------------------------------------------
\* C26: retryWithBackoff invokes the operation until it succeeds or
\* maxRetries retries are used up, waits baseDelay * 2^attempt before retry
\* number attempt (counted from 0), neither waits nor invokes after a
\* success, and once the retries are exhausted rejects with the error thrown
\* by its last invocation of the operation
C26_RetryUntilExhausted ==
  /\ \A k \in 1..Len(rb.waits) : rb.waits[k] = rb.baseDelay * 2^(k - 1)
  /\ rb.pc \in {"invoking", "resolved"} => Len(rb.waits) = rb.invoked - 1
  /\ rb.pc = "waiting" => Len(rb.waits) = rb.invoked
  /\ rb.pc = "rejected" =>
       /\ rb.invoked >= 1
       /\ rb.invoked - 1 = rb.maxRetries
       /\ Len(rb.waits) = rb.maxRetries
       /\ rb.error = rb.invoked

\* ------------------------------------------------------------------------
\* Properties of the breaker's recovery time
\* ------------------------------------------------------------------------
\* C30: once a failure has opened the circuit, the breaker is OPEN (and so
\* rejects every call without invoking the operation) until recoveryTimeout
\* has passed since that failure was observed, whatever the duration of the
\* operation and whatever calls complete meanwhile
C30_OpenForRecoveryTimeout ==
  (cbLast.openedAt # Undefined /\ now - cbLast.openedAt < cbCfg.recoveryTimeout) =>
     /\ cbState = "OPEN"
     /\ cbLast.ev = "invoke" => cbLast.callNow < cbLast.openedAt

\* ------------------------------------------------------------------------
\* Properties of the sweep of expired entries
\* ------------------------------------------------------------------------
\* the in-process entry of key is expired
Expired(key) == key \in DOMAIN memoryBuckets /\ memoryBuckets[key].resetAt <= now

\* a step of cleanupExpired: the map changes and no check was made
SweepStep == memoryBuckets' # memoryBuckets /\ rlLast' = NoCall

\* the sweep removes the expired entries and nothing else, and changes no
\* count
SweepExact ==
  /\ DOMAIN memoryBuckets' = {k \in DOMAIN memoryBuckets : memoryBuckets[k].resetAt > now}
  /\ \A k \in DOMAIN memoryBuckets' : memoryBuckets'[k] = memoryBuckets[k]

\* C28: expired in-process entries do not accumulate: every entry whose
\* resetAt <= now is eventually removed by the periodic sweep (or replaced by
\* a fresh window), and a sweep removes no entry whose window is open and
\* changes no count
C28_ExpiredEventuallySwept ==
  /\ \A key \in Keys : Expired(key) ~> ~Expired(key)
  /\ [][SweepStep => SweepExact]_vars
====
